---- MODULE Spec2Model ----
(***************************************************************************)
(* peerset.DB: Merkle set reconciliation between browser peers.            *)
(*                                                                         *)
(* The model follows src/src/App.svelte (orchestrator and ingestion),      *)
(* the EfficientMerkleSync class (second half of src/src/bucketStore.js)   *)
(* and merkleTree (src/unnamed/part_008).  Every asynchronous handler is   *)
(* cut at its awaits: the part before the first await runs when the        *)
(* message is taken, the rest is a suspended task that resumes later, in   *)
(* any order with the other handlers and timer callbacks of the node.      *)
(***************************************************************************)
EXTENDS Integers, Sequences, FiniteSets, Bags, TLC

(***************************************************************************)
(* Bounds of the model.                                                    *)
(***************************************************************************)
\* uuids are 1..MaxUuid; their order is the lexicographic order of the code
MaxUuid == 3
\* uuids in the runs where peers leave or moderation rejects
MaxUuidSmall == 2
\* how many failures a run has: a connection lost, a sync timeout expired, or
\* a save of records failed
MaxFailures == 1
\* how many uuids the moderation policy of a node rejects
MaxRejects == 1
\* how many uuids one call adds to the record-request batch: a reply of
\* depth 1 has two items, and an item without children has one uuid
MaxNeeded == 2
\* how often, in one run, a node may take a message or run a timer callback
\* while one of its handlers is suspended at an await
MaxOverlap == 1
\* the same two bounds for the runs that follow a descent into a tree that
\* changes meanwhile
MaxUuidDeep == 4
MaxOverlapDeep == 2
\* the entries of a hash map that changes entry by entry, in every order
MaxKeys == 4
\* the leaves of a tree that is looked at node by node: of five, six or seven
\* leaves the last ones climb a level unpaired
MaxLeaves == 7
\* the private keys a login token is made with or tampered towards
MaxKey == 2
\* how many batches of records arrive from the peer whose timings are kept
MaxBatches == 6
\* the longest path and the greatest depth of a subtree request
MaxPath == 2
MaxDepth == 2

UUIDs == 1..MaxUuid

(***************************************************************************)
(* Hashes.  SHA-256 is collision free here: a digest is the bracketed      *)
(* input, and the concatenation of two digests parses in one way only.     *)
(***************************************************************************)
HOpen == -1
HClose == -2

\* sha256(message): src/src/secp256k1.ts, used by buildMerkleTreeNodes
sha256(message) == <<HOpen>> \o message \o <<HClose>>

\* the '' that resetDatabase writes to merkleRoot, and the input of sha256('')
EmptyString == << >>

\* integrity.hash of the record a node generated for uuid u (UI.svelte 162-172)
ContentHash(u) == sha256(<<u>>)

\* a record as far as the sync reads it: its key and its integrity.hash
Record(u) == [uuid |-> u, hash |-> ContentHash(u)]

(***************************************************************************)
(* Merkle tree (src/unnamed/part_008).  A node is a record; kids is << >>  *)
(* for a node without left/right and <<left, right>> otherwise.            *)
(***************************************************************************)
\* Object.keys(records).sort() / [...left.uuids, ...right.uuids].sort()
RECURSIVE SortedSeq(_)
SortedSeq(S) ==
    IF S = {} THEN << >>
    ELSE LET m == CHOOSE x \in S : \A y \in S : x <= y
         IN  <<m>> \o SortedSeq(S \ {m})

Range(s) == {s[i] : i \in 1..Len(s)}

LeafNode(records, uuid) ==
    [hash |-> records[uuid], uuids |-> <<uuid>>, isLeaf |-> TRUE, kids |-> << >>]

\* a version that gives the parent the uuids of its left child only
CombineNodesLeftUuids(left, right) ==
    [hash   |-> sha256(left.hash \o right.hash),
     uuids  |-> left.uuids,
     isLeaf |-> FALSE,
     kids   |-> <<left, right>>]

CombineNodes(left, right) ==
    [hash   |-> sha256(left.hash \o right.hash),
     uuids  |-> SortedSeq(Range(left.uuids) \cup Range(right.uuids)),
     isLeaf |-> FALSE,
     kids   |-> <<left, right>>]

\* a version that hashes an unpaired last node again when it promotes it
RECURSIVE NextLevelRehash(_)
NextLevelRehash(nodes) ==
    IF Len(nodes) = 0 THEN << >>
    ELSE IF Len(nodes) = 1 THEN <<[nodes[1] EXCEPT !.hash = sha256(@)]>>
    ELSE <<CombineNodes(nodes[1], nodes[2])>>
             \o NextLevelRehash(SubSeq(nodes, 3, Len(nodes)))

\* one pass of the for loop: pair adjacent nodes, promote an unpaired last one
RECURSIVE NextLevel(_)
NextLevel(nodes) ==
    IF Len(nodes) = 0 THEN << >>
    ELSE IF Len(nodes) = 1 THEN <<nodes[1]>>
    ELSE <<CombineNodes(nodes[1], nodes[2])>> \o NextLevel(SubSeq(nodes, 3, Len(nodes)))

\* the while loop
RECURSIVE ReduceLevels(_)
ReduceLevels(nodes) ==
    IF Len(nodes) <= 1 THEN nodes[1] ELSE ReduceLevels(NextLevel(nodes))

EmptyTree == [hash |-> sha256(EmptyString), uuids |-> << >>, isLeaf |-> TRUE, kids |-> << >>]

buildMerkleTreeNodes(records) ==
    LET keys == SortedSeq(DOMAIN records)
    IN  IF Len(keys) = 0 THEN EmptyTree
        ELSE ReduceLevels([i \in 1..Len(keys) |-> LeafNode(records, keys[i])])

\* getMerkleTree answers from the cache only when the cached snapshot is the
\* argument (and younger than MERKLE_CACHE_TTL), and builds otherwise; either
\* way the result is the tree of its argument.
getMerkleTree(hashes) == buildMerkleTreeNodes(hashes)

HasLeft(node) == Len(node.kids) = 2
HasRight(node) == Len(node.kids) = 2
LeftOf(node) == node.kids[1]
RightOf(node) == node.kids[2]

(***************************************************************************)
(* Paths.  A path is the dotted string of the code, kept as the sequence   *)
(* of its pieces: the tokens "left" / "right" and the separator ".".       *)
(***************************************************************************)
Dot == "."
RootPath == << >>

\* basePath ? `${basePath}.left` : 'left'
ChildPath(basePath, token) ==
    IF basePath = << >> THEN <<token>> ELSE basePath \o <<Dot, token>>

\* path.split('.').filter(p => p): the pieces between the separators
PathParts(path) == SelectSeq(path, LAMBDA p : p # Dot)

NoNode == [hash |-> << >>, uuids |-> << >>, isLeaf |-> FALSE, kids |-> << >>, absent |-> TRUE]
IsNode(x) == "absent" \notin DOMAIN x

RECURSIVE WalkParts(_, _)
WalkParts(current, parts) ==
    IF Len(parts) = 0 THEN current
    ELSE IF parts[1] = "left" /\ HasLeft(current) THEN WalkParts(LeftOf(current), Tail(parts))
    ELSE IF parts[1] = "right" /\ HasRight(current) THEN WalkParts(RightOf(current), Tail(parts))
    ELSE NoNode

getSubtreeAtPath(tree, path) ==
    IF path = << >> THEN tree ELSE WalkParts(tree, PathParts(path))

Summary(path, node, hasChildren) ==
    [path |-> path, hash |-> node.hash, uuids |-> node.uuids, hasChildren |-> hasChildren]

\* a version that returns nothing for a node without children above the
\* requested depth
RECURSIVE extractSubtreeHashesBelowOnly(_, _, _)
extractSubtreeHashesBelowOnly(node, basePath, depth) ==
    IF depth = 0
    THEN <<Summary(basePath, node, ~node.isLeaf /\ (HasLeft(node) \/ HasRight(node)))>>
    ELSE (IF HasLeft(node)
          THEN extractSubtreeHashesBelowOnly(LeftOf(node), ChildPath(basePath, "left"),
                                             depth - 1)
          ELSE << >>)
      \o (IF HasRight(node)
          THEN extractSubtreeHashesBelowOnly(RightOf(node), ChildPath(basePath, "right"),
                                             depth - 1)
          ELSE << >>)

RECURSIVE extractSubtreeHashes(_, _, _)
extractSubtreeHashes(node, basePath, depth) ==
    IF depth = 0
    THEN <<Summary(basePath, node, ~node.isLeaf /\ (HasLeft(node) \/ HasRight(node)))>>
    ELSE (IF HasLeft(node)
          THEN extractSubtreeHashes(LeftOf(node), ChildPath(basePath, "left"), depth - 1)
          ELSE << >>)
      \o (IF HasRight(node)
          THEN extractSubtreeHashes(RightOf(node), ChildPath(basePath, "right"), depth - 1)
          ELSE << >>)
      \o (IF ~HasLeft(node) /\ ~HasRight(node)
          THEN <<Summary(basePath, node, FALSE)>>
          ELSE << >>)

(***************************************************************************)
(* The argument of buildMerkleTreeNodes as the JavaScript object it is:    *)
(* the sequence of its <<uuid, hash>> entries in insertion order.          *)
(***************************************************************************)
\* Object.keys(records): the keys in insertion order
ObjectKeys(records) == [i \in 1..Len(records) |-> records[i][1]]

\* records[uuid] for every key
ObjectMap(records) ==
    [uuid \in Range(ObjectKeys(records)) |->
        records[CHOOSE i \in 1..Len(records) : records[i][1] = uuid][2]]

\* records[uuid] = hash: an existing key keeps its place, a new one goes last
ObjectSet(records, uuid, hash) ==
    IF uuid \in Range(ObjectKeys(records))
    THEN [i \in 1..Len(records) |->
             IF records[i][1] = uuid THEN <<uuid, hash>> ELSE records[i]]
    ELSE Append(records, <<uuid, hash>>)

\* delete records[uuid]
ObjectDelete(records, uuid) == SelectSeq(records, LAMBDA e : e[1] # uuid)

\* a version of sort() that leaves the array as it is
ArrayUnsorted(keys) == keys

\* Array.prototype.sort(): the keys in ascending order, found by insertion
RECURSIVE InsertKey(_, _)
InsertKey(sorted, key) ==
    IF Len(sorted) = 0 THEN <<key>>
    ELSE IF key <= sorted[1] THEN <<key>> \o sorted
    ELSE <<sorted[1]>> \o InsertKey(Tail(sorted), key)

RECURSIVE InsertAll(_, _)
InsertAll(sorted, keys) ==
    IF Len(keys) = 0 THEN sorted ELSE InsertAll(InsertKey(sorted, keys[1]), Tail(keys))

ArraySort(keys) == InsertAll(<< >>, keys)

\* buildMerkleTreeNodes on the object: Object.keys(records).sort(), then the levels
buildMerkleTreeNodesOf(records) ==
    LET keys == ArraySort(ObjectKeys(records))
    IN  IF Len(keys) = 0 THEN EmptyTree
        ELSE ReduceLevels([i \in 1..Len(keys) |-> LeafNode(ObjectMap(records), keys[i])])

\* merkleTreeCache is << >> (null) or <<[hashes, root]>>; fresh: the entry is
\* younger than MERKLE_CACHE_TTL; JSON.stringify compares the entries in order
getMerkleTreeCached(merkleTreeCache, hashes, fresh) ==
    IF merkleTreeCache # << >> /\ fresh /\ merkleTreeCache[1].hashes = hashes
    THEN [root |-> merkleTreeCache[1].root, cache |-> merkleTreeCache]
    ELSE LET root == buildMerkleTreeNodesOf(hashes)
         IN  [root |-> root, cache |-> <<[hashes |-> hashes, root |-> root]>>]

\* the empty object, as onMount builds its tree
NoHashes == [hashes |-> << >>, cache |-> << >>, tree |-> EmptyTree, exposed |-> << >>]

(***************************************************************************)
(* Login token (src/src/Keymanager.svelte, src/src/secp256k1.ts).          *)
(* A hex string is the bytes it decodes to and its spelling: hexToBytes    *)
(* reads either letter case, so several strings decode to the same bytes.  *)
(* A Schnorr signature is the key and the digest it was made for; nobody   *)
(* makes one without the private key.                                      *)
(***************************************************************************)
TOKEN_VALIDITY_MS == 24 * 60 * 60 * 1000

\* the instants of Date.now() that are looked at: 24 h and 1 ms more
Instants == {0, 86400000, 86400001}

PrivateKeys == 1..MaxKey
Spellings == {"lower", "upper"}

HexString(bytes, spelling) == [bytes |-> bytes, spelling |-> spelling]
toLowerCase(hex) == HexString(hex.bytes, "lower")
hexToBytes(hex) == hex.bytes
bytesToHex(bytes) == HexString(bytes, "lower")

\* schnorr.getPublicKey
PublicKeyBytes(priv) == [pub |-> priv]
getXOnlyPublicKey(priv) == bytesToHex(PublicKeyBytes(priv))
\* decodeBech32Key(...).toLowerCase() of the npub / nsec of a key
decodeBech32Key(priv) == bytesToHex(PublicKeyBytes(priv))

\* utf8Encode(publicKey + timestamp.toString()): the characters of the key as
\* they are spelled, then the digits
TokenMessage(publicKey, timestamp) == <<publicKey.bytes, publicKey.spelling, timestamp>>
sha256Bytes(msg) == [digest |-> msg]

signSchnorr(msgHash, priv) ==
    bytesToHex([by |-> PublicKeyBytes(priv), over |-> msgHash])

verifySchnorr(sigHex, msgHash, pubHex) ==
    LET sigBytes == hexToBytes(toLowerCase(sigHex))
        pubBytes == hexToBytes(toLowerCase(pubHex))
    IN  sigBytes = [by |-> pubBytes, over |-> msgHash]

\* the token handleImport stores (lines 110-119)
LoginToken(priv, timestamp) ==
    LET pubHex == decodeBech32Key(priv)
    IN  [v |-> 1, publicKey |-> pubHex, timestamp |-> timestamp,
         signature |-> signSchnorr(sha256Bytes(TokenMessage(pubHex, timestamp)), priv)]

\* Keymanager before anything ran; null is << >>
NoSession ==
    [token |-> << >>, publicKeyHex |-> << >>, privateKeyHex |-> << >>,
     keysLoaded |-> FALSE, now |-> 0, restored |-> FALSE, loadedAt |-> 0]

\* a version that lets a token expire at 24 h sharp
loadTokenFromDBSharp(k) ==
    IF k.token = << >> THEN [k EXCEPT !.restored = FALSE, !.loadedAt = k.now]
    ELSE LET token == k.token[1]
             valid == verifySchnorr(token.signature,
                                    sha256Bytes(TokenMessage(token.publicKey, token.timestamp)),
                                    token.publicKey)
         IN  IF k.now - token.timestamp >= TOKEN_VALIDITY_MS \/ ~valid
             THEN [k EXCEPT !.restored = FALSE, !.loadedAt = k.now]
             ELSE [k EXCEPT !.publicKeyHex = <<token.publicKey>>, !.privateKeyHex = << >>,
                            !.keysLoaded = FALSE, !.restored = TRUE, !.loadedAt = k.now]

\* loadTokenFromDB (lines 32-59); restored: what it returned; loadedAt: the
\* Date.now() it read
loadTokenFromDB(k) ==
    IF k.token = << >> THEN [k EXCEPT !.restored = FALSE, !.loadedAt = k.now]
    ELSE LET token == k.token[1]
             valid == verifySchnorr(token.signature,
                                    sha256Bytes(TokenMessage(token.publicKey, token.timestamp)),
                                    token.publicKey)
         IN  IF k.now - token.timestamp > TOKEN_VALIDITY_MS THEN
                 [k EXCEPT !.restored = FALSE, !.loadedAt = k.now]
             ELSE IF ~valid THEN [k EXCEPT !.restored = FALSE, !.loadedAt = k.now]
             ELSE [k EXCEPT !.publicKeyHex = <<token.publicKey>>, !.privateKeyHex = << >>,
                            !.keysLoaded = FALSE, !.restored = TRUE, !.loadedAt = k.now]

(***************************************************************************)
(* State.                                                                  *)
(***************************************************************************)
Nodes == {1, 2}
\* the one remote peer of node n
Peer(n) == 3 - n

VARIABLES
    db,               \* per node: the IndexedDB table 'records', uuid -> record
    hashMapStore,     \* per node: the store hashMapStore, uuid -> integrity.hash
    merkleRoot,       \* per node: the store merkleRoot
    localMerkleRoot,  \* per node: localMerkleRoot.hash, built once in onMount
    moderation,       \* per node: the uuids its moderation policy rejects
    peers,            \* per node: the per-peer maps of App.svelte and the batcher
    tasks,            \* per node: bag of handlers suspended at an await
    net,              \* net[n]: messages sent by n, not yet taken by Peer(n)
    link,             \* the transport connection between the two nodes
    callback,         \* per node: onPeerJoin / onPeerLeave not yet run
    failures,         \* connections lost, timeouts expired and saves failed so far
    rejected,         \* per node: the uuids its moderation has rejected so far
    stats,            \* per node: the stat* counters of App.svelte
    overlaps,         \* how often a node may still begin a task while another is suspended
    hashes0,          \* per node: the hash index it started with
    merkle,           \* merkleTree.js on its own: an object of hashes, the cache, the tree
    session,          \* Keymanager.svelte: the stored login token and the keys in memory
    timing            \* peerBatchTimings of one peer as times, and the delay computed last

vars == <<db, hashMapStore, merkleRoot, localMerkleRoot, moderation, peers, tasks,
          net, link, callback, failures, rejected, stats, overlaps, hashes0, merkle,
          session, timing>>

\* the state of the two nodes and their connection
nodeVars == <<db, hashMapStore, merkleRoot, localMerkleRoot, moderation, peers, tasks,
              net, link, callback, failures, rejected, stats, overlaps, hashes0>>

(***************************************************************************)
(* Per-peer state of one node: one field per map of the source.            *)
(*   a timer handle is "none" (no entry), "armed" (entry of a timer that   *)
(*   will fire) or "fired" (entry left behind by a timer that has fired);  *)
(*   lost* counts armed timers whose handle was overwritten or deleted.    *)
(***************************************************************************)
ZeroTraffic ==
    [sent |-> [rootHashes |-> 0, subtrees |-> 0, records |-> 0],
     recv |-> [rootHashes |-> 0, subtrees |-> 0, records |-> 0]]

NoPeer ==
    [peerTraffic          |-> << >>,     \* << >> or <<counters>>
     lastActivity         |-> FALSE,     \* an entry exists
     processingRecords    |-> FALSE,
     syncInProgress       |-> FALSE,
     syncTimeouts         |-> "none",
     syncCompletionChecks |-> "none",
     pendingMerkleUpdates |-> "none",
     peerBatchTimings     |-> 0,         \* number of samples kept
     pendingRequests      |-> << >>,     \* << >> or <<[records, timeout]>>
     lostSyncTimeouts     |-> 0,
     lostCompletionChecks |-> 0,
     lostMerkleUpdates    |-> 0]

\* traffic counters stop counting at MaxCount
MaxCount == 3
Bump(c, k) == IF c + k > MaxCount THEN MaxCount ELSE c + k

MAX_BATCH_SIZE == 50
BATCH_TIMING_HISTORY == 5

\* { ...local, ...updates }
Merge(local, updates) ==
    [k \in DOMAIN local \cup DOMAIN updates |->
        IF k \in DOMAIN updates THEN updates[k] ELSE local[k]]

Restrict(f, S) == [k \in S |-> f[k]]

initPeer(s) ==
    [s EXCEPT !.peerTraffic  = IF s.peerTraffic = << >> THEN <<ZeroTraffic>> ELSE @,
              !.lastActivity = TRUE]

\* lastActivity[peerId] = Date.now()
touch(s) == [s EXCEPT !.lastActivity = TRUE]

cleanupPeerBatches(s) == [s EXCEPT !.pendingRequests = << >>]

\* a version that clears the handles and leaves the flag set
cleanupPeerSyncKeepsFlag(s) ==
    [cleanupPeerBatches(s) EXCEPT
        !.syncTimeouts         = "none",
        !.processingRecords    = FALSE,
        !.pendingMerkleUpdates = "none",
        !.peerBatchTimings     = 0,
        !.syncCompletionChecks = "none"]

cleanupPeerSync(s) ==
    [cleanupPeerBatches(s) EXCEPT
        !.syncTimeouts         = "none",
        !.syncInProgress       = FALSE,
        !.processingRecords    = FALSE,
        !.pendingMerkleUpdates = "none",
        !.peerBatchTimings     = 0,
        !.syncCompletionChecks = "none"]

\* clearTimeout + setTimeout on the recorded handle: the old timer is replaced
extendSyncTimeout(s) ==
    IF s.syncTimeouts # "none" /\ s.syncInProgress
    THEN [s EXCEPT !.syncTimeouts = "armed"]
    ELSE s

recordBatchTiming(s) ==
    [s EXCEPT !.peerBatchTimings =
        IF @ + 1 > BATCH_TIMING_HISTORY THEN BATCH_TIMING_HISTORY ELSE @ + 1]

\* the recorded timer, if any, is cleared and a new one is armed
scheduleMerkleRootUpdate(s) == [s EXCEPT !.pendingMerkleUpdates = "armed"]

scheduleCompletionCheck(s) == [s EXCEPT !.syncCompletionChecks = "armed"]

(***************************************************************************)
(* Adaptive debounce delay (src/src/App.svelte 51-53, 192-226).  Times are *)
(* milliseconds; a quotient is kept exact, as numerator and denominator.   *)
(***************************************************************************)
MIN_MERKLE_DELAY == 500
MAX_MERKLE_DELAY == 5000

Whole(k) == [num |-> k, den |-> 1]
Quotient(a, k) == [num |-> a.num, den |-> a.den * k]
Times(a, k) == [num |-> a.num * k, den |-> a.den]
Less(a, b) == a.num * b.den < b.num * a.den
Same(a, b) == a.num * b.den = b.num * a.den
MathMax(a, b) == IF Less(a, b) THEN b ELSE a
MathMin(a, b) == IF Less(b, a) THEN b ELSE a

\* intervals.reduce((sum, interval) => sum + interval, 0)
RECURSIVE SumOf(_)
SumOf(intervals) ==
    IF Len(intervals) = 0 THEN 0 ELSE intervals[1] + SumOf(Tail(intervals))

\* a version that does not cap the delay at MAX_MERKLE_DELAY
calculateAdaptiveDelayUncapped(timings) ==
    IF Len(timings) < 2
    THEN Whole(MIN_MERKLE_DELAY)
    ELSE LET intervals   == [i \in 1..(Len(timings) - 1) |-> timings[i + 1] - timings[i]]
             avgInterval == Quotient(Whole(SumOf(intervals)), Len(intervals))
         IN  MathMax(Times(avgInterval, 2), Whole(MIN_MERKLE_DELAY))

\* calculateAdaptiveDelay on the timings of the peer; << >>: no entry
calculateAdaptiveDelay(timings) ==
    IF Len(timings) < 2
    THEN Whole(MIN_MERKLE_DELAY)
    ELSE LET intervals   == [i \in 1..(Len(timings) - 1) |-> timings[i + 1] - timings[i]]
             avgInterval == Quotient(Whole(SumOf(intervals)), Len(intervals))
         IN  MathMin(MathMax(Times(avgInterval, 2), Whole(MIN_MERKLE_DELAY)),
                     Whole(MAX_MERKLE_DELAY))

\* recordBatchTiming with the time of the push: slice(-BATCH_TIMING_HISTORY)
recordBatchTimingAt(timings, now) ==
    LET pushed == Append(timings, now)
    IN  IF Len(pushed) > BATCH_TIMING_HISTORY
        THEN SubSeq(pushed, Len(pushed) - BATCH_TIMING_HISTORY + 1, Len(pushed))
        ELSE pushed

\* no batch yet
NoTimings == [now |-> 0, timings |-> << >>, delay |-> Whole(MIN_MERKLE_DELAY), batches |-> 0]

(***************************************************************************)
(* Messages.                                                               *)
(***************************************************************************)
RootHashMsg(h) == [kind |-> "rootHash", merkleRoot |-> h]
RequestSubtreeMsg(path, depth) ==
    [kind |-> "requestSubtreeHashes", path |-> path, depth |-> depth]
SubtreeHashesMsg(items) == [kind |-> "subtreeHashes", subtreeHashes |-> items]
RequestRecordsMsg(uuids) == [kind |-> "requestRecords", requestRecords |-> uuids]
RecordsMsg(records) == [kind |-> "records", records |-> records]

\* the result of a handler step: the new per-peer state and what it sent
Step(s, out) == [s |-> s, out |-> out]

(***************************************************************************)
(* EfficientMerkleSync (src/src/bucketStore.js 107-353).                   *)
(***************************************************************************)
startSync(localHashes, remoteRootHash) ==
    IF getMerkleTree(localHashes).hash = remoteRootHash
    THEN << >>
    ELSE <<RequestSubtreeMsg(RootPath, 1)>>

\* a version that stays silent when the path does not resolve
handleSubtreeHashRequestSilent(request, localHashes) ==
    LET subtree == getSubtreeAtPath(getMerkleTree(localHashes), request.path)
    IN  IF ~IsNode(subtree)
        THEN << >>
        ELSE <<SubtreeHashesMsg(extractSubtreeHashes(subtree, request.path, request.depth))>>

handleSubtreeHashRequest(request, localHashes) ==
    LET subtree == getSubtreeAtPath(getMerkleTree(localHashes), request.path)
    IN  IF ~IsNode(subtree)
        THEN <<SubtreeHashesMsg(<< >>)>>
        ELSE <<SubtreeHashesMsg(extractSubtreeHashes(subtree, request.path, request.depth))>>

\* a version that sends the batch and leaves its timer armed
flushRecordBatchKeepsTimer(s) ==
    IF s.pendingRequests = << >> \/ s.pendingRequests[1].records = {}
    THEN Step(s, << >>)
    ELSE Step([s EXCEPT !.pendingRequests = <<[records |-> {}, timeout |-> @[1].timeout]>>],
              <<RequestRecordsMsg(s.pendingRequests[1].records)>>)

flushRecordBatch(s) ==
    IF s.pendingRequests = << >> \/ s.pendingRequests[1].records = {}
    THEN Step(s, << >>)
    ELSE Step([s EXCEPT !.pendingRequests = <<[records |-> {}, timeout |-> "none"]>>],
              <<RequestRecordsMsg(s.pendingRequests[1].records)>>)

batchRecordRequest(s, records) ==
    LET pending == IF s.pendingRequests = << >>
                   THEN [records |-> {}, timeout |-> "none"]
                   ELSE s.pendingRequests[1]
        added   == [records |-> pending.records \cup Range(records), timeout |-> "none"]
    IN  IF Cardinality(added.records) >= MAX_BATCH_SIZE
        THEN flushRecordBatch([s EXCEPT !.pendingRequests = <<added>>])
        ELSE Step([s EXCEPT !.pendingRequests = <<[added EXCEPT !.timeout = "armed"]>>],
                  << >>)

\* does the remote summary differ from the local node at its path
Differs(localTree, remoteSubtree) ==
    LET localSubtree == getSubtreeAtPath(localTree, remoteSubtree.path)
    IN  ~IsNode(localSubtree) \/ localSubtree.hash # remoteSubtree.hash

\* a version that descends below every differing item, a leaf included
RECURSIVE DeeperRequestsBelowLeaves(_, _)
DeeperRequestsBelowLeaves(localTree, items) ==
    IF Len(items) = 0 THEN << >>
    ELSE (IF Differs(localTree, items[1])
          THEN <<RequestSubtreeMsg(items[1].path, 1)>>
          ELSE << >>) \o DeeperRequestsBelowLeaves(localTree, Tail(items))

\* the requests the loop sends, in the order of the items
RECURSIVE DeeperRequests(_, _)
DeeperRequests(localTree, items) ==
    IF Len(items) = 0 THEN << >>
    ELSE (IF Differs(localTree, items[1]) /\ items[1].hasChildren
          THEN <<RequestSubtreeMsg(items[1].path, 1)>>
          ELSE << >>) \o DeeperRequests(localTree, Tail(items))

\* the uuids the loop pushes to neededRecords
RECURSIVE NeededRecords(_, _)
NeededRecords(localTree, items) ==
    IF Len(items) = 0 THEN << >>
    ELSE (IF Differs(localTree, items[1]) /\ ~items[1].hasChildren
          THEN items[1].uuids
          ELSE << >>) \o NeededRecords(localTree, Tail(items))

\* a version that asks for the records of differing leaves but never descends
handleSubtreeHashesNoDescent(s, items, localHashes) ==
    LET localTree == getMerkleTree(localHashes)
        needed    == NeededRecords(localTree, items)
        batched   == IF Len(needed) > 0 THEN batchRecordRequest(s, needed) ELSE Step(s, << >>)
    IN  [s |-> batched.s, out |-> batched.out, neededRecords |-> needed]

\* result: the step, and neededRecords as returned to the caller
handleSubtreeHashes(s, items, localHashes) ==
    LET localTree == getMerkleTree(localHashes)
        needed    == NeededRecords(localTree, items)
        deeper    == DeeperRequests(localTree, items)
        batched   == IF Len(needed) > 0 THEN batchRecordRequest(s, needed) ELSE Step(s, << >>)
    IN  [s |-> batched.s, out |-> deeper \o batched.out, neededRecords |-> needed]

\* not in src/: the two queries the completion check makes of the batcher
hasPendingBatches(s) ==
    s.pendingRequests # << >> /\ s.pendingRequests[1].records # {}

getPendingRecordCount(s) ==
    IF s.pendingRequests = << >> THEN 0 ELSE Cardinality(s.pendingRequests[1].records)

(***************************************************************************)
(* Moderation (src/unnamed/part_007): the policy of a node is the set of   *)
(* uuids whose records it rejects; the shipped policy rejects none.        *)
(***************************************************************************)
moderateRecordsBatch(rejects, records) ==
    [uuid \in DOMAIN records |-> uuid \notin rejects]

(***************************************************************************)
(* Orchestrator and ingestion (src/src/App.svelte).                        *)
(***************************************************************************)
ZeroStats ==
    [statRecordsSent |-> 0, statReceivedRecords |-> 0, statSubtreesExchanged |-> 0,
     statRootHashesSent |-> 0, statRootHashesReceived |-> 0]

HasTraffic(s) == s.peerTraffic # << >>

\* a version that does not look at syncInProgress before it starts a sync
onRootHashUnguarded(s, peerRoot, localMerkleRootHash) ==
    LET s1 == [initPeer(s) EXCEPT !.peerTraffic[1].recv.rootHashes = Bump(@, 1)]
    IN  IF peerRoot # localMerkleRootHash
        THEN IF s1.processingRecords THEN [s |-> touch(s1), start |-> FALSE]
             ELSE [s |-> [s1 EXCEPT !.syncInProgress = TRUE], start |-> TRUE]
        ELSE [s |-> touch(s1), start |-> FALSE]

\* what getRootHash does before its first await; start: it goes on to startSync
onRootHash(s, peerRoot, localMerkleRootHash) ==
    LET s1 == [initPeer(s) EXCEPT !.peerTraffic[1].recv.rootHashes = Bump(@, 1)]
    IN  IF peerRoot # localMerkleRootHash
        THEN IF s1.processingRecords THEN [s |-> touch(s1), start |-> FALSE]
             ELSE IF s1.syncInProgress THEN [s |-> touch(s1), start |-> FALSE]
             ELSE [s |-> [s1 EXCEPT !.syncInProgress = TRUE], start |-> TRUE]
        ELSE [s |-> touch(s1), start |-> FALSE]

\* after await startSync: syncTimeouts[peerId] = setTimeout(...), line 414
armSyncTimeout(s) ==
    touch([s EXCEPT !.syncTimeouts = "armed",
                    !.lostSyncTimeouts = IF s.syncTimeouts = "armed" THEN @ + 1 ELSE @])

\* checkAndInitiateReverseSync: the message, and the bookkeeping after the send
reverseSyncRoot(localMerkleRootHash) == RootHashMsg(localMerkleRootHash)

afterReverseSync(s) ==
    IF HasTraffic(s)
    THEN touch([s EXCEPT !.peerTraffic[1].sent.rootHashes = Bump(@, 1)])
    ELSE s

\* the callback of the completion-check timer; lost: the timer that fired
\* was not the recorded one
completionCheck(s, localMerkleRootHash) ==
    IF ~hasPendingBatches(s) /\ getPendingRecordCount(s) = 0 /\ s.syncInProgress
    THEN [s |-> cleanupPeerSync(afterReverseSync(s)),
          out |-> <<reverseSyncRoot(localMerkleRootHash)>>,
          counted |-> HasTraffic(s)]
    ELSE [s |-> [scheduleCompletionCheck(s) EXCEPT
                    !.syncCompletionChecks = "none",
                    !.lostCompletionChecks = @ + 1],
          out |-> << >>,
          counted |-> FALSE]

\* a version that saves the whole batch, whatever moderation returned
approvedRecordsUnfiltered(rejects, records) == records

\* the records of a batch that moderation lets through
approvedRecords(rejects, records) ==
    LET moderationResults == moderateRecordsBatch(rejects, records)
    IN  Restrict(records, {uuid \in DOMAIN records : moderationResults[uuid]})

\* a version that indexes a digest of the hash the record carries
approvedHashesRehashed(approved) ==
    [uuid \in DOMAIN approved |-> sha256(approved[uuid].hash)]

approvedHashes(approved) == [uuid \in DOMAIN approved |-> approved[uuid].hash]

\* getRecords up to the moderation result
beginRecords(s, records) ==
    recordBatchTiming(extendSyncTimeout(
        [initPeer([s EXCEPT !.processingRecords = TRUE]) EXCEPT
            !.peerTraffic[1].recv.records = Bump(@, Cardinality(DOMAIN records))]))

\* getRecords after the save: schedule both timers, release the lock
endRecords(s) ==
    [scheduleCompletionCheck(scheduleMerkleRootUpdate(s)) EXCEPT
        !.processingRecords = FALSE]

\* not in src/ (db.js of the revision that has it): put every record under its key
saveRecordsBatch(table, records) ==
    Merge(table, [uuid \in DOMAIN records |-> [records[uuid] EXCEPT !.uuid = uuid]])

\* toSend of the requestRecords branch
\* a version that replies with every record of the store
recordsToSendStore(fullRecord, requestRecords) == fullRecord

recordsToSend(fullRecord, requestRecords) ==
    Restrict(fullRecord, requestRecords \cap DOMAIN fullRecord)

(***************************************************************************)
(* Transport: one ordered channel per direction; what is sent while the    *)
(* connection is down is lost.                                             *)
(***************************************************************************)
Sent(n, out) == [net EXCEPT ![n] = IF link = "up" THEN @ \o out ELSE @]

\* node n takes the next message of its peer
Taken(n, out) ==
    [m \in Nodes |->
        IF m = Peer(n) THEN Tail(net[m])
        ELSE IF link = "up" THEN net[m] \o out ELSE net[m]]

\* the transport hands a message to its handler while the peer is connected,
\* and also when the peer has left with the message still on its way
CanTake(n, kind) ==
    /\ link \in {"up", "late"}
    /\ callback[n] = "none"
    /\ net[Peer(n)] # << >>
    /\ Head(net[Peer(n)]).kind = kind

\* node n begins a task: a message handler or a timer callback
Begin(n) ==
    /\ tasks[n] # EmptyBag => overlaps > 0
    /\ overlaps' = IF tasks[n] # EmptyBag THEN overlaps - 1 ELSE overlaps

Suspend(n, t) == [tasks EXCEPT ![n] = @ (+) SetToBag({t})]
Resume(n, t) == [tasks EXCEPT ![n] = @ (-) SetToBag({t})]
Suspended(n, k) == {t \in BagToSet(tasks[n]) : t.k = k}

\* a version that writes the state under every peer id the node knows
SetPeerAll(n, s) == [peers EXCEPT ![n] = [p \in DOMAIN @ |-> s]]

SetPeer(n, s) == [peers EXCEPT ![n][Peer(n)] = s]
BumpStat(n, field, k) == [stats EXCEPT ![n][field] = Bump(@, k)]

StoresOf(S) == [uuid \in S |-> Record(uuid)]

\* a record with other content under the uuid of Record(u)
OtherRecord(u) == [uuid |-> u, hash |-> sha256(<<u, u>>)]

(***************************************************************************)
(* Initial state: both nodes have run onMount on their persisted records   *)
(* (App.svelte 306-323) and are not yet connected.                         *)
(***************************************************************************)
\* known: the per-peer maps of each node at the start
InitPeers(stores, policies, budget, known) ==
    /\ db = stores
    /\ hashMapStore = [n \in Nodes |-> [uuid \in DOMAIN db[n] |-> db[n][uuid].hash]]
    /\ localMerkleRoot = [n \in Nodes |-> buildMerkleTreeNodes(hashMapStore[n]).hash]
    /\ merkleRoot = localMerkleRoot
    /\ moderation \in [Nodes -> policies]
    /\ peers = known
    /\ tasks = [n \in Nodes |-> EmptyBag]
    /\ net = [n \in Nodes |-> << >>]
    /\ link = "down"
    /\ callback = [n \in Nodes |-> "none"]
    /\ failures = 0
    /\ rejected = [n \in Nodes |-> {}]
    /\ stats = [n \in Nodes |-> ZeroStats]
    /\ overlaps = budget
    /\ hashes0 = hashMapStore
    /\ session = NoSession
    /\ timing = NoTimings

InitNodes(stores, policies, budget) ==
    InitPeers(stores, policies, budget, [n \in Nodes |-> [p \in {Peer(n)} |-> NoPeer]])

InitFrom(stores, policies, budget) ==
    /\ InitNodes(stores, policies, budget)
    /\ merkle = NoHashes

InitWith(uuids, policies, budget) ==
    \E S \in [Nodes -> SUBSET uuids] :
        \* the uuids in use are 1..k: only their order matters
        /\ \E k \in 0..Cardinality(uuids) : S[1] \cup S[2] = 1..k
        /\ InitFrom([n \in Nodes |-> StoresOf(S[n])], policies, budget)

\* the shipped moderation, which approves everything
ApproveAllPolicy == {{}}
\* policies that reject up to MaxRejects of the uuids
RejectingPolicies(uuids) == {R \in SUBSET uuids : Cardinality(R) <= MaxRejects}

Init == InitWith(1..MaxUuidSmall, ApproveAllPolicy, MaxOverlap)
InitSync == InitWith(UUIDs, ApproveAllPolicy, MaxOverlap)
InitModerated ==
    InitWith(1..MaxUuidSmall, RejectingPolicies(1..MaxUuidSmall), MaxOverlap)

\* both nodes hold the last uuid and all but one of the others
InitDeep ==
    /\ InitWith(1..MaxUuidDeep, ApproveAllPolicy, MaxOverlapDeep)
    /\ \A n \in Nodes :
          /\ MaxUuidDeep \in DOMAIN db[n]
          /\ Cardinality(DOMAIN db[n]) = MaxUuidDeep - 1

(***************************************************************************)
(* Connection events.                                                      *)
(***************************************************************************)
Connect ==
    /\ link = "down"
    /\ \A n \in Nodes : callback[n] = "none"
    /\ link' = "up"
    /\ callback' = [n \in Nodes |-> "join"]
    /\ UNCHANGED <<timing, session, merkle, hashes0, db, hashMapStore, merkleRoot, localMerkleRoot, moderation, peers,
                   tasks, net, failures, rejected, stats, overlaps>>

\* room.onPeerJoin
PeerJoin(n) ==
    /\ callback[n] = "join"
    /\ callback' = [callback EXCEPT ![n] = "none"]
    /\ peers' = SetPeer(n, [initPeer(peers[n][Peer(n)]) EXCEPT
                              !.peerTraffic[1].sent.rootHashes = Bump(@, 1)])
    /\ net' = Sent(n, <<RootHashMsg(localMerkleRoot[n])>>)
    /\ stats' = BumpStat(n, "statRootHashesSent", 1)
    /\ Begin(n)
    /\ UNCHANGED <<timing, session, merkle, hashes0, db, hashMapStore, merkleRoot, localMerkleRoot, moderation, tasks,
                   link, failures, rejected>>

Disconnect ==
    /\ link = "up"
    /\ \A n \in Nodes : callback[n] = "none"
    /\ failures < MaxFailures
    /\ link' = "down"
    /\ failures' = failures + 1
    /\ net' = [n \in Nodes |-> << >>]
    /\ callback' = [n \in Nodes |-> "leave"]
    /\ UNCHANGED <<timing, session, merkle, hashes0, db, hashMapStore, merkleRoot, localMerkleRoot, moderation, peers,
                   tasks, rejected, stats, overlaps>>

\* the peers leave each other while messages are on their way: the messages
\* reach their handlers after onPeerLeave
LeaveWithMessages ==
    /\ link = "up"
    /\ \A n \in Nodes : callback[n] = "none"
    /\ \E n \in Nodes : net[n] # << >>
    /\ failures < MaxFailures
    /\ link' = "late"
    /\ failures' = failures + 1
    /\ callback' = [n \in Nodes |-> "leave"]
    /\ UNCHANGED <<timing, session, merkle, hashes0, db, hashMapStore, merkleRoot,
                   localMerkleRoot, moderation, peers, tasks, net, rejected, stats,
                   overlaps>>

\* room.onPeerLeave
PeerLeave(n) ==
    /\ callback[n] = "leave"
    /\ callback' = [callback EXCEPT ![n] = "none"]
    /\ peers' = SetPeer(n, cleanupPeerSync([peers[n][Peer(n)] EXCEPT
                                              !.peerTraffic = << >>,
                                              !.lastActivity = FALSE]))
    /\ Begin(n)
    /\ UNCHANGED <<timing, session, merkle, hashes0, db, hashMapStore, merkleRoot, localMerkleRoot, moderation, tasks,
                   net, link, failures, rejected, stats>>

(***************************************************************************)
(* getRootHash (App.svelte 357-415).                                       *)
(***************************************************************************)
RecvRootHash(n) ==
    /\ CanTake(n, "rootHash")
    /\ LET peerData == Head(net[Peer(n)])
           s == peers[n][Peer(n)]
       IN  IF ~HasTraffic(s)
           THEN /\ net' = Taken(n, << >>)
                /\ UNCHANGED <<peers, tasks, stats>>
           ELSE LET r == onRootHash(s, peerData.merkleRoot, merkleRoot[n])
                IN  /\ net' = Taken(n, << >>)
                    /\ peers' = SetPeer(n, r.s)
                    /\ stats' = BumpStat(n, "statRootHashesReceived", 1)
                    /\ tasks' = IF r.start
                                THEN Suspend(n, [k |-> "startSync",
                                                 remoteRootHash |-> peerData.merkleRoot,
                                                 localHashes |-> hashMapStore[n]])
                                ELSE tasks
    /\ Begin(n)
    /\ UNCHANGED <<timing, session, merkle, hashes0, db, hashMapStore, merkleRoot, localMerkleRoot, moderation, link,
                   callback, failures, rejected>>

ResumeStartSync(n) ==
    \E t \in Suspended(n, "startSync") :
        /\ tasks' = Resume(n, t)
        /\ net' = Sent(n, startSync(t.localHashes, t.remoteRootHash))
        /\ peers' = SetPeer(n, armSyncTimeout(peers[n][Peer(n)]))
        /\ UNCHANGED <<timing, session, merkle, hashes0, db, hashMapStore, merkleRoot, localMerkleRoot, moderation, link,
                       callback, failures, rejected, stats, overlaps>>

(***************************************************************************)
(* getSubtree (App.svelte 418-495), one action per kind of request.        *)
(***************************************************************************)
RecvSubtreeHashRequest(n) ==
    /\ CanTake(n, "requestSubtreeHashes")
    /\ net' = Taken(n, << >>)
    /\ peers' = SetPeer(n, initPeer(peers[n][Peer(n)]))
    /\ tasks' = Suspend(n, [k |-> "hashRequest", request |-> Head(net[Peer(n)]),
                            localHashes |-> hashMapStore[n]])
    /\ Begin(n)
    /\ UNCHANGED <<timing, session, merkle, hashes0, db, hashMapStore, merkleRoot, localMerkleRoot, moderation, link,
                   callback, failures, rejected, stats>>

ResumeSubtreeHashRequest(n) ==
    \E t \in Suspended(n, "hashRequest") :
        LET s == peers[n][Peer(n)]
        IN  /\ tasks' = Resume(n, t)
            /\ net' = Sent(n, handleSubtreeHashRequest(t.request, t.localHashes))
            /\ peers' = SetPeer(n, touch(IF HasTraffic(s)
                                         THEN [s EXCEPT !.peerTraffic[1].sent.subtrees = Bump(@, 1)]
                                         ELSE s))
            /\ UNCHANGED <<timing, session, merkle, hashes0, db, hashMapStore, merkleRoot, localMerkleRoot, moderation,
                           link, callback, failures, rejected, stats, overlaps>>

RecvSubtreeHashes(n) ==
    /\ CanTake(n, "subtreeHashes")
    /\ net' = Taken(n, << >>)
    /\ peers' = SetPeer(n, initPeer(peers[n][Peer(n)]))
    /\ tasks' = Suspend(n, [k |-> "subtreeHashes",
                            subtreeHashes |-> Head(net[Peer(n)]).subtreeHashes,
                            localHashes |-> hashMapStore[n]])
    /\ Begin(n)
    /\ UNCHANGED <<timing, session, merkle, hashes0, db, hashMapStore, merkleRoot, localMerkleRoot, moderation, link,
                   callback, failures, rejected, stats>>

ResumeSubtreeHashes(n) ==
    \E t \in Suspended(n, "subtreeHashes") :
        LET r == handleSubtreeHashes(peers[n][Peer(n)], t.subtreeHashes, t.localHashes)
            counted == Len(r.neededRecords) > 0 /\ HasTraffic(r.s)
        IN  /\ tasks' = Resume(n, t)
            /\ net' = Sent(n, r.out)
            /\ peers' = SetPeer(n, touch(IF counted
                                         THEN extendSyncTimeout(
                                                [r.s EXCEPT !.peerTraffic[1].sent.subtrees = Bump(@, 1)])
                                         ELSE r.s))
            /\ stats' = IF counted THEN BumpStat(n, "statSubtreesExchanged", 1) ELSE stats
            /\ UNCHANGED <<timing, session, merkle, hashes0, db, hashMapStore, merkleRoot, localMerkleRoot, moderation,
                           link, callback, failures, rejected, overlaps>>

RecvRecordRequest(n) ==
    /\ CanTake(n, "requestRecords")
    /\ net' = Taken(n, << >>)
    /\ peers' = SetPeer(n, initPeer(peers[n][Peer(n)]))
    /\ tasks' = Suspend(n, [k |-> "recordRequest",
                            requestRecords |-> Head(net[Peer(n)]).requestRecords])
    /\ Begin(n)
    /\ UNCHANGED <<timing, session, merkle, hashes0, db, hashMapStore, merkleRoot, localMerkleRoot, moderation, link,
                   callback, failures, rejected, stats>>

ResumeRecordRequest(n) ==
    \E t \in Suspended(n, "recordRequest") :
        LET s == peers[n][Peer(n)]
            toSend == recordsToSend(db[n], t.requestRecords)
            count == Cardinality(DOMAIN toSend)
        IN  /\ tasks' = Resume(n, t)
            /\ net' = Sent(n, IF count > 0 THEN <<RecordsMsg(toSend)>> ELSE << >>)
            /\ stats' = BumpStat(n, "statRecordsSent", count)
            /\ peers' = SetPeer(n, touch(IF count > 0 /\ HasTraffic(s)
                                         THEN [s EXCEPT !.peerTraffic[1].sent.records = Bump(@, count)]
                                         ELSE s))
            /\ UNCHANGED <<timing, session, merkle, hashes0, db, hashMapStore, merkleRoot, localMerkleRoot, moderation,
                           link, callback, failures, rejected, overlaps>>

(***************************************************************************)
(* getRecords (App.svelte 498-579).  Moderation has no real await; the     *)
(* handler is suspended in saveRecordsBatch when something was approved.   *)
(***************************************************************************)
RecvRecords(n) ==
    /\ CanTake(n, "records")
    /\ LET records == Head(net[Peer(n)]).records
           s1 == beginRecords(peers[n][Peer(n)], records)
           approved == approvedRecords(moderation[n], records)
       IN  /\ net' = Taken(n, << >>)
           /\ stats' = BumpStat(n, "statReceivedRecords", Cardinality(DOMAIN records))
           /\ rejected' = [rejected EXCEPT ![n] = @ \cup (DOMAIN records \ DOMAIN approved)]
           /\ IF DOMAIN approved # {}
              THEN /\ peers' = SetPeer(n, s1)
                   /\ tasks' = Suspend(n, [k |-> "saveRecords", records |-> records,
                                           approvedRecords |-> approved,
                                           committed |-> FALSE])
              ELSE /\ peers' = SetPeer(n, endRecords(s1))
                   /\ tasks' = tasks
    /\ Begin(n)
    /\ UNCHANGED <<timing, session, merkle, hashes0, db, hashMapStore, merkleRoot, localMerkleRoot, moderation, link,
                   callback, failures>>

\* the transaction of saveRecordsBatch commits
CommitSave(n) ==
    \E t \in Suspended(n, "saveRecords") :
        /\ ~t.committed
        /\ tasks' = [tasks EXCEPT ![n] = (@ (-) SetToBag({t}))
                                          (+) SetToBag({[t EXCEPT !.committed = TRUE]})]
        /\ db' = [db EXCEPT ![n] = saveRecordsBatch(@, t.approvedRecords)]
        /\ UNCHANGED <<timing, session, merkle, hashes0, hashMapStore, merkleRoot, localMerkleRoot, moderation, peers, net,
                       link, callback, failures, rejected, stats, overlaps>>

\* the handler resumes after the save: lines 549-569 and the finally block
ResumeSave(n) ==
    \E t \in Suspended(n, "saveRecords") :
        /\ t.committed
        /\ tasks' = Resume(n, t)
        /\ hashMapStore' = [hashMapStore EXCEPT
                               ![n] = Merge(@, approvedHashes(t.approvedRecords))]
        /\ peers' = SetPeer(n, endRecords(peers[n][Peer(n)]))
        /\ UNCHANGED <<timing, session, merkle, hashes0, db, merkleRoot, localMerkleRoot, moderation, net, link, callback,
                       failures, rejected, stats, overlaps>>

\* a record that came without its integrity object
MalformedRecord(u) == [uuid |-> u]

\* record.integrity.hash can be read (line 535)
HasIntegrity(record) == "hash" \in DOMAIN record

\* getRecords on a batch of a peer that holds the records of good and, under
\* the uuid bad, a record without integrity.  Moderation approves the record,
\* line 535 throws on it, and the outer catch (570-574) and the finally block
\* run: nothing of the batch was saved.
RecvMalformed(n, good, bad) ==
    LET records == [uuid \in good \cup {bad} |->
                       IF uuid = bad THEN MalformedRecord(uuid) ELSE Record(uuid)]
        moderationResults == moderateRecordsBatch(moderation[n], records)
        s1 == beginRecords(peers[n][Peer(n)], records)
    IN  /\ link = "up"
        /\ callback[n] = "none"
        /\ failures < MaxFailures
        /\ failures' = failures + 1
        /\ \E uuid \in DOMAIN records :
               moderationResults[uuid] /\ ~HasIntegrity(records[uuid])
        /\ stats' = BumpStat(n, "statReceivedRecords", Cardinality(DOMAIN records))
        /\ peers' = SetPeer(n, [cleanupPeerSync(s1) EXCEPT !.processingRecords = FALSE])
        /\ Begin(n)
        /\ UNCHANGED <<timing, session, merkle, hashes0, db, hashMapStore, merkleRoot, localMerkleRoot, moderation,
                       tasks, net, link, callback, rejected>>

\* a version that forgets the peers instead of zeroing their counters
handleResetStatsForget(s) == [s EXCEPT !.peerTraffic = << >>]

\* handleResetStats (lines 255-270) on the entry of one peer: only a peer with
\* an entry in peerTraffic is visited by the loop
handleResetStats(s) ==
    [s EXCEPT !.peerTraffic = IF HasTraffic(s) THEN <<ZeroTraffic>> ELSE @]

\* the user presses Reset Stats
ResetStats(n) ==
    /\ stats' = [stats EXCEPT ![n] = ZeroStats]
    /\ peers' = [peers EXCEPT ![n] = [p \in DOMAIN @ |-> handleResetStats(@[p])]]
    /\ Begin(n)
    /\ UNCHANGED <<timing, session, merkle, hashes0, db, hashMapStore, merkleRoot, localMerkleRoot, moderation,
                   tasks, net, link, callback, failures, rejected>>

\* clearDatabase of db.js: the table 'records' without its records
clearDatabase(records) == [uuid \in {} |-> records[uuid]]

\* the user presses Reset Database: resetDatabase of UI.svelte (lines 91-110)
\* clears the table, then sets hashMapStore to {} and merkleRoot to ''
ResetDatabase(n) ==
    /\ db' = [db EXCEPT ![n] = clearDatabase(@)]
    /\ hashMapStore' = [hashMapStore EXCEPT ![n] = [uuid \in {} |-> EmptyString]]
    /\ merkleRoot' = [merkleRoot EXCEPT ![n] = EmptyString]
    /\ Begin(n)
    /\ UNCHANGED <<timing, session, merkle, hashes0, localMerkleRoot, moderation, peers, tasks, net,
                   link, callback, failures, rejected, stats>>

\* the RECORDS or SUBTREE_HASHES message at the head of the channel of node n
\* is delivered twice
Duplicate(n) ==
    /\ link = "up"
    /\ net[n] # << >>
    /\ Head(net[n]).kind \in {"records", "subtreeHashes"}
    /\ failures < MaxFailures
    /\ failures' = failures + 1
    /\ net' = [net EXCEPT ![n] = <<Head(@)>> \o @]
    /\ UNCHANGED <<timing, session, merkle, hashes0, db, hashMapStore, merkleRoot,
                   localMerkleRoot, moderation, peers, tasks, link, callback, rejected,
                   stats, overlaps>>

\* the transaction of saveRecordsBatch fails: the inner catch (lines 553-555)
\* logs, nothing is stored or indexed, the handler goes on from line 558
FailSave(n) ==
    \E t \in Suspended(n, "saveRecords") :
        /\ ~t.committed
        /\ failures < MaxFailures
        /\ failures' = failures + 1
        /\ tasks' = Resume(n, t)
        /\ peers' = SetPeer(n, endRecords(peers[n][Peer(n)]))
        /\ UNCHANGED <<timing, session, merkle, hashes0, db, hashMapStore, merkleRoot, localMerkleRoot, moderation, net,
                       link, callback, rejected, stats, overlaps>>

(***************************************************************************)
(* Timers.                                                                 *)
(***************************************************************************)
\* the BATCH_DELAY timer of batchRecordRequest
FlushTimer(n) ==
    LET s == peers[n][Peer(n)]
    IN  /\ s.pendingRequests # << >>
        /\ s.pendingRequests[1].timeout = "armed"
        /\ LET r == flushRecordBatch(s)
           IN  /\ peers' = SetPeer(n, r.s)
               /\ net' = Sent(n, r.out)
        /\ Begin(n)
        /\ UNCHANGED <<timing, session, merkle, hashes0, db, hashMapStore, merkleRoot, localMerkleRoot, moderation, tasks,
                       link, callback, failures, rejected, stats>>

\* the 120 s timer of getRootHash / extendSyncTimeout
SyncTimeout(n) ==
    LET s == peers[n][Peer(n)]
    IN  /\ failures < MaxFailures
        /\ failures' = failures + 1
        /\ \/ /\ s.syncTimeouts = "armed"
              /\ peers' = SetPeer(n, cleanupPeerSync(s))
           \/ /\ s.lostSyncTimeouts > 0
              /\ peers' = SetPeer(n, cleanupPeerSync([s EXCEPT !.lostSyncTimeouts = @ - 1]))
        /\ Begin(n)
        /\ UNCHANGED <<timing, session, merkle, hashes0, db, hashMapStore, merkleRoot, localMerkleRoot, moderation, tasks,
                       net, link, callback, rejected, stats>>

\* the 120 s timer fires, as in SyncTimeout, in a run that does not count it
SyncExpiry(n) ==
    LET s == peers[n][Peer(n)]
    IN  /\ \/ /\ s.syncTimeouts = "armed"
              /\ peers' = SetPeer(n, cleanupPeerSync(s))
           \/ /\ s.lostSyncTimeouts > 0
              /\ peers' = SetPeer(n, cleanupPeerSync([s EXCEPT !.lostSyncTimeouts = @ - 1]))
        /\ Begin(n)
        /\ UNCHANGED <<timing, session, merkle, hashes0, db, hashMapStore, merkleRoot, localMerkleRoot,
                       moderation, tasks, net, link, callback, failures, rejected, stats>>

\* the debounce timer of scheduleMerkleRootUpdate fires: up to the await
MerkleUpdateTimer(n) ==
    LET s == peers[n][Peer(n)]
    IN  /\ \/ /\ s.pendingMerkleUpdates = "armed"
              /\ peers' = SetPeer(n, [s EXCEPT !.pendingMerkleUpdates = "fired"])
           \/ /\ s.lostMerkleUpdates > 0
              /\ peers' = SetPeer(n, [s EXCEPT !.lostMerkleUpdates = @ - 1])
        /\ tasks' = Suspend(n, [k |-> "merkleUpdate", hashes |-> hashMapStore[n]])
        /\ Begin(n)
        /\ UNCHANGED <<timing, session, merkle, hashes0, db, hashMapStore, merkleRoot, localMerkleRoot, moderation, net,
                       link, callback, failures, rejected, stats>>

\* delete pendingMerkleUpdates[peerId]: a timer armed meanwhile loses its handle
forgetMerkleUpdate(s) ==
    [s EXCEPT !.pendingMerkleUpdates = "none",
              !.lostMerkleUpdates = IF s.pendingMerkleUpdates = "armed" THEN @ + 1 ELSE @]

ResumeMerkleUpdate(n) ==
    \E t \in Suspended(n, "merkleUpdate") :
        /\ tasks' = Resume(n, t)
        /\ merkleRoot' = [merkleRoot EXCEPT ![n] = getMerkleTree(t.hashes).hash]
        /\ peers' = SetPeer(n, forgetMerkleUpdate(peers[n][Peer(n)]))
        /\ UNCHANGED <<timing, session, merkle, hashes0, db, hashMapStore, localMerkleRoot, moderation, net, link, callback,
                       failures, rejected, stats, overlaps>>

\* the 2 s timer of scheduleCompletionCheck; fired: the state as the callback
\* finds it
CompletionCheckRuns(n, fired) ==
    LET r == completionCheck(fired, merkleRoot[n])
    IN  /\ peers' = SetPeer(n, r.s)
        /\ net' = Sent(n, r.out)
        /\ stats' = IF r.counted THEN BumpStat(n, "statRootHashesSent", 1) ELSE stats

CompletionCheckTimer(n) ==
    LET s == peers[n][Peer(n)]
    IN  /\ \/ /\ s.syncCompletionChecks = "armed"
              /\ CompletionCheckRuns(n, [s EXCEPT !.syncCompletionChecks = "fired"])
           \/ /\ s.lostCompletionChecks > 0
              /\ CompletionCheckRuns(n, [s EXCEPT !.lostCompletionChecks = @ - 1])
        /\ Begin(n)
        /\ UNCHANGED <<timing, session, merkle, hashes0, db, hashMapStore, merkleRoot, localMerkleRoot, moderation, tasks,
                       link, callback, failures, rejected>>

(***************************************************************************)
(* The batcher on its own: a node is handed needed uuids call by call, as  *)
(* handleSubtreeHashes hands them to batchRecordRequest.  The uuids of a   *)
(* call are consecutive and next to the ones already pending, so that the  *)
(* accumulator can grow to MAX_BATCH_SIZE.                                 *)
(***************************************************************************)
Interval(lo, len) == [i \in 1..len |-> lo + i - 1]

AddToBatch(n) ==
    LET s == peers[n][Peer(n)]
    IN  /\ link = "up"
        /\ callback[n] = "none"
        /\ net[n] = << >>
        /\ tasks[Peer(n)] = EmptyBag
        /\ \E lo \in 1..(getPendingRecordCount(s) + 1), len \in 1..MaxNeeded :
              LET r == batchRecordRequest(s, Interval(lo, len))
              IN  /\ peers' = SetPeer(n, r.s)
                  /\ net' = Sent(n, r.out)
        /\ Begin(n)
        /\ UNCHANGED <<timing, session, merkle, hashes0, db, hashMapStore, merkleRoot, localMerkleRoot, moderation, tasks,
                       link, callback, failures, rejected, stats>>

(***************************************************************************)
(* merkleTree.js on its own: one hash map changes entry by entry, its tree *)
(* is fetched with getMerkleTree after every change, and subtrees of the   *)
(* tree are exposed as handleSubtreeHashRequest exposes them.              *)
(***************************************************************************)
\* two content hashes; any uuid may carry either
HashValues == {ContentHash(1), ContentHash(2)}

RECURSIVE PathsUpTo(_)
PathsUpTo(k) ==
    IF k = 0 THEN {RootPath}
    ELSE PathsUpTo(k - 1)
         \cup {ChildPath(path, token) : path \in PathsUpTo(k - 1), token \in {"left", "right"}}

\* getMerkleTree(hashes), the cache as it is, the entry fresh or expired
Fetch(hashes, fresh) ==
    LET r == getMerkleTreeCached(merkle.cache, hashes, fresh)
    IN  /\ merkle' = [hashes |-> hashes, cache |-> r.cache, tree |-> r.root,
                      exposed |-> << >>]
        /\ UNCHANGED <<nodeVars, session, timing>>

\* an entry is added, or the hash of an entry changes
SetHash ==
    \E uuid \in 1..MaxKeys, hash \in HashValues, fresh \in BOOLEAN :
        /\ <<uuid, hash>> \notin Range(merkle.hashes)
        /\ Fetch(ObjectSet(merkle.hashes, uuid, hash), fresh)

\* an entry is removed
DeleteHash ==
    \E uuid \in Range(ObjectKeys(merkle.hashes)), fresh \in BOOLEAN :
        Fetch(ObjectDelete(merkle.hashes, uuid), fresh)

\* the uuid of an entry changes, its hash stays
RenameUuid ==
    \E uuid \in Range(ObjectKeys(merkle.hashes)), fresh \in BOOLEAN :
        \E other \in (1..MaxKeys) \ Range(ObjectKeys(merkle.hashes)) :
            Fetch(ObjectSet(ObjectDelete(merkle.hashes, uuid), other,
                            ObjectMap(merkle.hashes)[uuid]), fresh)

\* an entry is removed and inserted again: the same map in another order
Reinsert ==
    \E uuid \in Range(ObjectKeys(merkle.hashes)), fresh \in BOOLEAN :
        Fetch(ObjectSet(ObjectDelete(merkle.hashes, uuid), uuid,
                        ObjectMap(merkle.hashes)[uuid]), fresh)

\* the tree of the same object is fetched once more
Rebuild == \E fresh \in BOOLEAN : Fetch(merkle.hashes, fresh)

\* extractSubtreeHashes(getSubtreeAtPath(tree, path), path, depth)
Expose ==
    \E path \in PathsUpTo(MaxPath), depth \in 0..MaxDepth :
        LET subtree == getSubtreeAtPath(merkle.tree, path)
        IN  /\ IsNode(subtree)
            /\ merkle' = [merkle EXCEPT
                             !.exposed = extractSubtreeHashes(subtree, path, depth)]
            /\ UNCHANGED <<nodeVars, session, timing>>

(***************************************************************************)
(* getMerkleTree call by call: a call that misses the cache is suspended   *)
(* at its await of buildMerkleTreeNodes and writes the cache when it       *)
(* resumes, while other calls begin and return.                            *)
(***************************************************************************)
\* the entries a hash map is made of: every uuid with the hash of its record,
\* and the first uuid also with the hash of other content
SnapshotEntries ==
    {<<uuid, ContentHash(uuid)>> : uuid \in 1..MaxUuidSmall} \cup {<<1, ContentHash(2)>>}

\* the hash maps a call may be made with: entries of distinct uuids, in any order
Snapshots ==
    {hashes \in UNION {[1..k -> SnapshotEntries] : k \in 0..MaxUuidSmall} :
        \A i, j \in 1..Len(hashes) : hashes[i][1] = hashes[j][1] => i = j}

\* a version that compares the keys of the cached map only
cacheValidByKeys(merkleTreeCache, hashes, fresh) ==
    /\ merkleTreeCache # << >>
    /\ fresh
    /\ ObjectKeys(merkleTreeCache[1].hashes) = ObjectKeys(hashes)

\* the condition of lines 31-33: an entry, younger than MERKLE_CACHE_TTL,
\* whose JSON.stringify equals that of the argument
cacheValid(merkleTreeCache, hashes, fresh) ==
    /\ merkleTreeCache # << >>
    /\ fresh
    /\ merkleTreeCache[1].hashes = hashes

\* no call yet, the cache is null
NoCalls ==
    [hashes |-> << >>, cache |-> << >>, tree |-> EmptyTree, exposed |-> << >>,
     pending |-> {}, hit |-> FALSE]

\* getMerkleTree(hashes) up to its return from the cache or its await
CallGetMerkleTree(hashes, fresh) ==
    /\ IF cacheValid(merkle.cache, hashes, fresh)
       THEN merkle' = [merkle EXCEPT !.hashes = hashes, !.tree = merkle.cache[1].root,
                                     !.hit = TRUE]
       ELSE /\ Cardinality(merkle.pending) <= MaxOverlap
            /\ merkle' = [merkle EXCEPT !.pending = @ \cup
                             {[hashes |-> hashes, root |-> buildMerkleTreeNodesOf(hashes)]}]
    /\ UNCHANGED <<nodeVars, session, timing>>

\* a suspended call resumes: it writes the cache and returns its tree
ReturnGetMerkleTree ==
    \E call \in merkle.pending :
        /\ merkle' = [merkle EXCEPT !.pending = @ \ {call},
                                    !.cache = <<[hashes |-> call.hashes, root |-> call.root]>>,
                                    !.hashes = call.hashes,
                                    !.tree = call.root,
                                    !.hit = FALSE]
        /\ UNCHANGED <<nodeVars, session, timing>>

(***************************************************************************)
(* Specifications.                                                         *)
(***************************************************************************)
NodeStep(n) ==
    \/ PeerJoin(n)
    \/ RecvRootHash(n)
    \/ ResumeStartSync(n)
    \/ RecvSubtreeHashRequest(n)
    \/ ResumeSubtreeHashRequest(n)
    \/ RecvSubtreeHashes(n)
    \/ ResumeSubtreeHashes(n)
    \/ RecvRecordRequest(n)
    \/ ResumeRecordRequest(n)
    \/ RecvRecords(n)
    \/ CommitSave(n)
    \/ ResumeSave(n)
    \/ FlushTimer(n)
    \/ MerkleUpdateTimer(n)
    \/ ResumeMerkleUpdate(n)
    \/ CompletionCheckTimer(n)

\* no peer leaves and no sync takes 120 s
NextSync == Connect \/ \E n \in Nodes : NodeStep(n)

\* failure-free reconciliation, moderation approving everything
SpecSync == InitSync /\ [][NextSync]_vars

\* reconciliation in which the peer stays but a sync timeout may expire
NextTimeout == NextSync \/ \E n \in Nodes : SyncTimeout(n)

SpecTimeout == InitSync /\ [][NextTimeout]_vars

\* reconciliation in which the peer stays but a save of records may fail
NextPersist == NextSync \/ \E n \in Nodes : FailSave(n)

SpecPersist == Init /\ [][NextPersist]_vars

\* reconciliation in which a peer may send a batch with a malformed record
NextMalformed ==
    \/ NextSync
    \/ \E n \in Nodes, bad \in 1..MaxUuidSmall :
           \E good \in (SUBSET (1..MaxUuidSmall \ {bad})) \ {{}} : RecvMalformed(n, good, bad)

SpecMalformed == Init /\ [][NextMalformed]_vars

\* reconciliation in which the user of a node may reset its database
NextErase == NextSync \/ \E n \in Nodes : ResetDatabase(n)

SpecErase == Init /\ [][NextErase]_vars

\* a token that is neither 'left' nor 'right'
UnknownToken == "up"

\* the paths a peer may ask for: those of a tree of MaxPath levels, which
\* reach past the leaves of a smaller tree, and paths with an unknown token
RequestPaths == PathsUpTo(MaxPath) \cup {<<UnknownToken>>}

\* node n sends a request for subtree hashes of its own making
SendSubtreeRequest(n, path, depth) ==
    /\ link = "up"
    /\ callback[n] = "none"
    /\ failures < MaxFailures
    /\ failures' = failures + 1
    /\ net' = Sent(n, <<RequestSubtreeMsg(path, depth)>>)
    /\ UNCHANGED <<timing, session, merkle, hashes0, db, hashMapStore, merkleRoot, localMerkleRoot,
                   moderation, peers, tasks, link, callback, rejected, stats, overlaps>>

\* the node that is asked holds the records of 1..MaxUuidSmall, the node
\* that asks holds none
Asked == 1
InitRequest ==
    InitFrom([n \in Nodes |-> StoresOf(IF n = Asked THEN 1..MaxUuidSmall ELSE {})],
             ApproveAllPolicy, MaxOverlap)

\* reconciliation in which a peer may ask for any subtree at any time
NextRequest ==
    \/ NextSync
    \/ \E path \in RequestPaths, depth \in 0..MaxDepth :
           SendSubtreeRequest(Peer(Asked), path, depth)

SpecRequest == InitRequest /\ [][NextRequest]_vars

\* reconciliation in which a message may be delivered twice
NextDuplicate == NextSync \/ \E n \in Nodes : Duplicate(n)

SpecDuplicate == Init /\ [][NextDuplicate]_vars

\* reconciliation cut short by a leave that messages outlive
NextLate ==
    \/ NextSync
    \/ LeaveWithMessages
    \/ \E n \in Nodes : PeerLeave(n)

SpecLate == Init /\ [][NextLate]_vars

\* failure-free reconciliation of two nodes that lack one record each
SpecDeep == InitDeep /\ [][NextSync]_vars

\* failure-free reconciliation with moderation policies that reject
SpecModerated == InitModerated /\ [][NextSync]_vars

\* peers may leave and come back, and the sync timeout may expire
Next ==
    \/ Connect
    \/ Disconnect
    \/ \E n \in Nodes : NodeStep(n) \/ PeerLeave(n) \/ SyncTimeout(n)

Spec == Init /\ [][Next]_vars

\* a second remote peer of each node; the model runs no handler for it
Bystander == 3

\* the bystander after onPeerJoin
BystanderJoined ==
    [initPeer(NoPeer) EXCEPT !.peerTraffic[1].sent.rootHashes = Bump(@, 1)]

\* the bystander in the middle of a sync: the timeout armed, a request batch
\* pending, one batch of records ingested
BystanderSyncing ==
    endRecords(beginRecords(
        batchRecordRequest(armSyncTimeout([BystanderJoined EXCEPT !.syncInProgress = TRUE]),
                           <<2>>).s,
        StoresOf({1})))

\* the nodes know their peer and the bystander, which joined earlier and is
\* syncing with node 1
InitIsolation ==
    /\ \E S \in [Nodes -> SUBSET (1..MaxUuidSmall)] :
         \E k \in 0..MaxUuidSmall :
            /\ S[1] \cup S[2] = 1..k
            /\ InitPeers([n \in Nodes |-> StoresOf(S[n])], ApproveAllPolicy, MaxOverlap,
                         [n \in Nodes |->
                             [p \in {Peer(n), Bystander} |->
                                 IF p # Bystander THEN NoPeer
                                 ELSE IF n = 1 THEN BystanderSyncing ELSE BystanderJoined]])
    /\ merkle = NoHashes

\* every handler, timer and error path of the peer, next to the bystander
NextIsolation ==
    \/ Next
    \/ \E n \in Nodes : FailSave(n)
    \/ \E n \in Nodes, bad \in 1..MaxUuidSmall :
           \E good \in (SUBSET (1..MaxUuidSmall \ {bad})) \ {{}} : RecvMalformed(n, good, bad)

SpecIsolation == InitIsolation /\ [][NextIsolation]_vars

\* reconciliation during which the user may reset the statistics
NextReset == NextSync \/ \E n \in Nodes : ResetStats(n)

SpecReset == InitIsolation /\ [][NextReset]_vars

\* a suspended handler does resume; as WF_vars of the resuming action, with
\* its enabling condition (a task of the kind is suspended) written out
Resumes(n, k) ==
    \/ []<>(Suspended(n, k) = {})
    \/ []<><<\E t \in Suspended(n, k) : tasks' = Resume(n, t)>>_vars

\* the runtime delivers every message, resumes every suspended handler and
\* fires every armed timer
Fairness ==
    /\ WF_vars(Connect)
    /\ \A n \in Nodes :
          /\ WF_vars(PeerJoin(n))
          /\ WF_vars(RecvRootHash(n))
          /\ WF_vars(ResumeStartSync(n))
          /\ WF_vars(RecvSubtreeHashRequest(n))
          /\ Resumes(n, "hashRequest")
          /\ WF_vars(RecvSubtreeHashes(n))
          /\ Resumes(n, "subtreeHashes")
          /\ WF_vars(RecvRecordRequest(n))
          /\ WF_vars(ResumeRecordRequest(n))
          /\ WF_vars(RecvRecords(n))
          /\ WF_vars(CommitSave(n))
          /\ WF_vars(ResumeSave(n))
          /\ WF_vars(FlushTimer(n))
          /\ WF_vars(MerkleUpdateTimer(n))
          /\ WF_vars(ResumeMerkleUpdate(n))
          /\ WF_vars(CompletionCheckTimer(n))

\* failure-free reconciliation under a fair runtime
SpecLive == Init /\ [][NextSync]_vars /\ Fairness

\* the same, and the 120 s timer of a sync fires when it is left armed
NextExpiry == NextSync \/ \E n \in Nodes : SyncExpiry(n)

\* node 1 holds the records of 1..MaxUuidSmall, node 2 only the first: the
\* sync of node 1 brings it no records
InitExpiry ==
    InitFrom([n \in Nodes |-> StoresOf(IF n = 1 THEN 1..MaxUuidSmall ELSE {1})],
             ApproveAllPolicy, MaxOverlap)

SpecExpiry ==
    InitExpiry /\ [][NextExpiry]_vars /\ Fairness /\ \A n \in Nodes : WF_vars(SyncExpiry(n))

\* two peers without records; node 1 collects needed uuids, node 2 is asked
InitBatch == InitWith({}, ApproveAllPolicy, MaxOverlap)

NextBatch ==
    \/ Connect
    \/ \E n \in Nodes : PeerJoin(n) \/ RecvRootHash(n)
    \/ AddToBatch(1)
    \/ FlushTimer(1)
    \/ RecvRecordRequest(2)
    \/ ResumeRecordRequest(2)

SpecBatch == InitBatch /\ [][NextBatch]_vars

\* the hash map of one node and its tree, without any peer
InitMerkle == InitFrom([n \in Nodes |-> StoresOf({})], ApproveAllPolicy, MaxOverlap)

NextMerkle == SetHash \/ DeleteHash \/ RenameUuid \/ Reinsert \/ Rebuild

SpecMerkle == InitMerkle /\ [][NextMerkle]_vars

\* the hash map of generated records, its keys inserted in ascending order
HashesOf(S) == [i \in 1..Cardinality(S) |-> <<SortedSeq(S)[i], ContentHash(SortedSeq(S)[i])>>]

(***************************************************************************)
(* Keymanager.svelte on its own.                                           *)
(***************************************************************************)
SetSession(k) ==
    /\ session' = k
    /\ UNCHANGED <<nodeVars, merkle, timing>>

\* the page is loaded: the variables of the component start empty and onMount
\* (lines 142-151) loads the token
Mount ==
    SetSession(loadTokenFromDB([session EXCEPT !.publicKeyHex = << >>,
                                               !.privateKeyHex = << >>,
                                               !.keysLoaded = FALSE]))

\* handleImport (lines 88-129) with the npub of one key and the nsec of one
handleImport(k, npub, nsec) ==
    LET pubHex == decodeBech32Key(npub)
        derivedPub == getXOnlyPublicKey(nsec)
    IN  IF hexToBytes(pubHex) # hexToBytes(derivedPub) THEN k
        ELSE [k EXCEPT !.token = <<LoginToken(nsec, k.now)>>,
                       !.publicKeyHex = <<pubHex>>,
                       !.privateKeyHex = <<nsec>>,
                       !.keysLoaded = TRUE]

Import == \E npub, nsec \in PrivateKeys : SetSession(handleImport(session, npub, nsec))

\* logout (lines 132-140)
Logout ==
    SetSession([session EXCEPT !.token = << >>, !.publicKeyHex = << >>,
                               !.privateKeyHex = << >>, !.keysLoaded = FALSE])

\* time passes
Tick == \E t \in Instants : t > session.now /\ SetSession([session EXCEPT !.now = t])

\* the hex strings and the signatures somebody with one of the keys can write:
\* a signature is over the message of the token as it is, or over the message
\* of an issued token
PublicKeyStrings == {HexString(PublicKeyBytes(p), sp) : p \in PrivateKeys, sp \in Spellings}
SignatureStrings(token) ==
    LET messages == {TokenMessage(token.publicKey, token.timestamp)}
                       \cup {TokenMessage(getXOnlyPublicKey(q), t) :
                                 q \in PrivateKeys, t \in Instants}
    IN  {HexString([by |-> PublicKeyBytes(p), over |-> sha256Bytes(m)], sp) :
            p \in PrivateKeys, m \in messages, sp \in Spellings}

\* the stored token is edited in IndexedDB, one field at a time
Tamper ==
    /\ session.token # << >>
    /\ \/ \E t \in Instants :
             SetSession([session EXCEPT !.token[1].timestamp = t])
       \/ \E pub \in PublicKeyStrings :
             SetSession([session EXCEPT !.token[1].publicKey = pub])
       \/ \E sig \in SignatureStrings(session.token[1]) :
             SetSession([session EXCEPT !.token[1].signature = sig])

InitToken == InitFrom([n \in Nodes |-> StoresOf({})], ApproveAllPolicy, MaxOverlap)

NextToken == Mount \/ Import \/ Logout \/ Tick \/ Tamper

SpecToken == InitToken /\ [][NextToken]_vars

\* the times between two batches of a peer
Gaps == {0, 250, 1500, 3000}

\* a batch arrives gap ms after the last one: getRecords records its time
\* (line 517) and, after its awaits, computes the delay of the debounce
\* (lines 563, 236); cleaned: cleanupPeerSync ran during the awaits
BatchArrives(gap, cleaned) ==
    /\ timing.batches < MaxBatches
    /\ LET now     == timing.now + gap
           pushed  == recordBatchTimingAt(timing.timings, now)
           timings == IF cleaned THEN << >> ELSE pushed
       IN  timing' = [now |-> now, timings |-> timings,
                      delay |-> calculateAdaptiveDelay(timings),
                      batches |-> timing.batches + 1]
    /\ UNCHANGED <<nodeVars, merkle, session>>

InitDelay == InitFrom([n \in Nodes |-> StoresOf({})], ApproveAllPolicy, MaxOverlap)

NextDelay == \E gap \in Gaps, cleaned \in BOOLEAN : BatchArrives(gap, cleaned)

SpecDelay == InitDelay /\ [][NextDelay]_vars

InitCache ==
    /\ InitNodes([n \in Nodes |-> StoresOf({})], ApproveAllPolicy, MaxOverlap)
    /\ merkle = NoCalls

NextCache ==
    \/ \E hashes \in Snapshots, fresh \in BOOLEAN : CallGetMerkleTree(hashes, fresh)
    \/ ReturnGetMerkleTree

SpecCache == InitCache /\ [][NextCache]_vars

\* any set of up to MaxLeaves records, and its tree as onMount builds it
InitTree ==
    /\ InitNodes([n \in Nodes |-> StoresOf({})], ApproveAllPolicy, MaxOverlap)
    /\ \E S \in SUBSET (1..MaxLeaves) :
          merkle = [hashes |-> HashesOf(S), cache |-> << >>,
                    tree |-> buildMerkleTreeNodesOf(HashesOf(S)), exposed |-> << >>]

NextTree == Rebuild \/ Expose

SpecTree == InitTree /\ [][NextTree]_vars

\* the two nodes hold different records under some of the uuids they share
InitConflict ==
    \E S \in [Nodes -> SUBSET (1..MaxUuidSmall)] :
        /\ \E k \in 0..MaxUuidSmall : S[1] \cup S[2] = 1..k
        /\ \E C \in SUBSET (S[1] \cap S[2]) :
              InitFrom([n \in Nodes |->
                           [uuid \in S[n] |->
                               IF n = 2 /\ uuid \in C THEN OtherRecord(uuid)
                                                       ELSE Record(uuid)]],
                       ApproveAllPolicy, MaxOverlap)

\* failure-free reconciliation of nodes whose records may differ
SpecConflict == InitConflict /\ [][NextSync]_vars

(***************************************************************************)
(* Properties.                                                             *)
(***************************************************************************)
TimerArmed(handle, lost) == handle = "armed" \/ lost > 0

RootOf(hashes) == getMerkleTree(hashes).hash

\* what node n sends in a step
SentNow(n) ==
    IF Len(net'[n]) > Len(net[n])
    THEN SubSeq(net'[n], Len(net[n]) + 1, Len(net'[n]))
    ELSE << >>

SentKind(n, kind) == {m \in Range(SentNow(n)) : m.kind = kind}

\* the uuids waiting in the record-request batch
PendingOf(s) == IF s.pendingRequests = << >> THEN {} ELSE s.pendingRequests[1].records

\* nothing is in flight, no handler is suspended, and no timer is armed whose
\* callback would do more than arm itself again
Quiescent ==
    /\ link = "up"
    /\ \A n \in Nodes :
        LET s == peers[n][Peer(n)]
        IN  /\ callback[n] = "none"
            /\ net[n] = << >>
            /\ tasks[n] = EmptyBag
            /\ ~(s.pendingRequests # << >> /\ s.pendingRequests[1].timeout = "armed")
            /\ ~TimerArmed(s.pendingMerkleUpdates, s.lostMerkleUpdates)
            /\ TimerArmed(s.syncCompletionChecks, s.lostCompletionChecks)
                  => ~s.syncInProgress

AgreeOnShared ==
    \A u \in DOMAIN hashes0[1] \cap DOMAIN hashes0[2] : hashes0[1][u] = hashes0[2][u]

ApproveAll == \A n \in Nodes : moderation[n] = {}

UnionOfInitial == Merge(hashes0[1], hashes0[2])

\* C1: two connected peers whose initial hash maps agree on shared uuids, with
\* moderation approving everything and no failure, hold at quiescence the
\* union of the two initial hash maps in both hash indexes.
Convergence ==
    (Quiescent /\ AgreeOnShared /\ ApproveAll)
        => \A n \in Nodes : hashMapStore[n] = UnionOfInitial

SymmetricDifference ==
    (DOMAIN hashes0[1] \ DOMAIN hashes0[2]) \cup (DOMAIN hashes0[2] \ DOMAIN hashes0[1])

\* C2: the records carried in RECORDS messages, both directions together, are
\* at most as many as the uuids that one peer had and the other had not.
ReconciliationBandwidth ==
    stats[1].statRecordsSent + stats[2].statRecordsSent
        <= Cardinality(SymmetricDifference)

\* C3: a uuid enters the record-request batch only if it is not in the local
\* hash index.
OnlyMissingBatched ==
    [][\A n \in Nodes :
          (PendingOf(peers'[n][Peer(n)]) \ PendingOf(peers[n][Peer(n)]))
              \cap DOMAIN hashMapStore[n] = {}]_vars

\* C4: every REQUEST_RECORDS carries at least 1 and at most MAX_BATCH_SIZE uuids.
BatchingInvariant ==
    \A n \in Nodes : \A i \in 1..Len(net[n]) :
        net[n][i].kind = "requestRecords"
            => /\ Cardinality(net[n][i].requestRecords) >= 1
               /\ Cardinality(net[n][i].requestRecords) <= MAX_BATCH_SIZE

\* the startSync calls of node n that have not returned
StartSyncCount(n) ==
    BagCardinality([t \in Suspended(n, "startSync") |-> CopiesIn(t, tasks[n])])

\* C5: a root-hash handler begins a sync with the peer only when no sync with
\* that peer is in progress: between setting syncInProgress and clearing it
\* there is no second start.
AtMostOneSync ==
    [][\A n \in Nodes :
          StartSyncCount(n)' > StartSyncCount(n)
              => /\ ~peers[n][Peer(n)].syncInProgress
                 /\ peers'[n][Peer(n)].syncInProgress]_vars

\* C5 happens: a sync is in progress and a second ROOT_HASH has been received
SecondRootHashDuringSync ==
    \E n \in Nodes :
        LET s == peers[n][Peer(n)]
        IN  /\ s.syncInProgress
            /\ s.syncTimeouts = "armed"
            /\ s.lostSyncTimeouts = 0
            /\ HasTraffic(s)
            /\ s.peerTraffic[1].recv.rootHashes >= 2
            /\ RootOf(hashMapStore[Peer(n)]) # merkleRoot[n]

\* C6: a ROOT_HASH sent after ingestion (the reverse-sync root) carries the
\* Merkle root of the hash index as it is then.
ReverseSyncRootCurrent ==
    [][\A n \in Nodes :
          callback[n] = "none"
              => \A m \in SentKind(n, "rootHash") :
                     m.merkleRoot = RootOf(hashMapStore[n])]_vars

\* C7: the ROOT_HASH sent on peer join carries the root of the hash index at
\* the time of the join.
JoinRootCurrent ==
    [][\A n \in Nodes :
          (callback[n] = "join" /\ callback'[n] = "none")
              => \A m \in SentKind(n, "rootHash") :
                     m.merkleRoot = RootOf(hashMapStore[n])]_vars

\* node n takes a ROOT_HASH that equals the root of its hash index
TakesEqualRoot(n) ==
    /\ CanTake(n, "rootHash")
    /\ link' = link
    /\ net'[Peer(n)] = Tail(net[Peer(n)])
    /\ Head(net[Peer(n)]).merkleRoot = RootOf(hashMapStore[n])

SyncStateOf(s) ==
    <<s.syncInProgress, s.syncTimeouts, s.lostSyncTimeouts, s.syncCompletionChecks,
      s.lostCompletionChecks, s.pendingMerkleUpdates, s.lostMerkleUpdates,
      s.pendingRequests>>

\* C8: taking a ROOT_HASH equal to the local root sends nothing and leaves
\* syncInProgress, the timers and the batch of that peer as they were.
EqualRootIsSilent ==
    [][\A n \in Nodes :
          TakesEqualRoot(n)
              => /\ net'[n] = net[n]
                 /\ SyncStateOf(peers'[n][Peer(n)]) = SyncStateOf(peers[n][Peer(n)])
                 /\ tasks'[n] = tasks[n]]_vars

\* C9: a node that is not in the middle of an ingestion never sends a
\* REQUEST_RECORDS with a uuid its moderation has rejected.
RejectionStable ==
    [][\A n \in Nodes :
          Suspended(n, "saveRecords") = {}
              => \A m \in SentKind(n, "requestRecords") :
                     m.requestRecords \cap rejected[n] = {}]_vars

\* the hashes of the records of a batch for which moderation returned true
ApprovedOf(n, records) ==
    LET moderationResults == moderateRecordsBatch(moderation[n], records)
    IN  [uuid \in {u \in DOMAIN records : moderationResults[u]} |-> records[uuid].hash]

\* C10: the record store and the hash index change only by an ingestion, and
\* then they hold the previous entries plus exactly the records of the batch
\* that moderation approved, each under its uuid with its integrity.hash.
ExactlyApprovedAdmitted ==
    [][\A n \in Nodes :
          /\ db'[n] # db[n] =>
                \E t \in Suspended(n, "saveRecords") :
                    /\ DOMAIN db'[n] = DOMAIN db[n] \cup DOMAIN ApprovedOf(n, t.records)
                    /\ \A u \in DOMAIN db'[n] :
                          db'[n][u] = IF u \in DOMAIN ApprovedOf(n, t.records)
                                      THEN t.records[u] ELSE db[n][u]
          /\ hashMapStore'[n] # hashMapStore[n] =>
                \E t \in Suspended(n, "saveRecords") :
                    /\ hashMapStore'[n] = Merge(hashMapStore[n], ApprovedOf(n, t.records))
                    /\ \A u \in DOMAIN ApprovedOf(n, t.records) :
                          u \in DOMAIN db[n] /\ db[n][u].hash = hashMapStore'[n][u]]_vars

\* C10 happens: a batch with an approved and a rejected record has been
\* ingested
MixedBatchIngested ==
    \E n \in Nodes :
        /\ rejected[n] # {}
        /\ rejected[n] \cap DOMAIN hashMapStore[n] = {}
        /\ DOMAIN hashMapStore[n] # DOMAIN hashes0[n]
        /\ DOMAIN hashMapStore[n] = DOMAIN db[n]
        /\ tasks[n] = EmptyBag
        /\ peers[n][Peer(n)].peerBatchTimings = 1
        /\ HasTraffic(peers[n][Peer(n)])
        /\ peers[n][Peer(n)].peerTraffic[1].recv.records = 2

\* C11: wherever another handler of the node can run, a uuid is in the hash
\* index exactly when its record is in the record store.
HashIndexCoherent ==
    \A n \in Nodes :
        (tasks[n] = EmptyBag \/ overlaps > 0)
            => DOMAIN hashMapStore[n] = DOMAIN db[n]

\* C12: a uuid that is in the hash index stays there with the same hash, and
\* its stored record stays the same.
StoredIsImmutable ==
    [][\A n \in Nodes : \A uuid \in DOMAIN hashMapStore[n] :
          /\ uuid \in DOMAIN hashMapStore'[n]
          /\ hashMapStore'[n][uuid] = hashMapStore[n][uuid]
          /\ uuid \in DOMAIN db[n] => (uuid \in DOMAIN db'[n] /\ db'[n][uuid] = db[n][uuid])]_vars

\* C13: fetching the tree of the same hash map again, its entries in another
\* insertion order or the cache holding an earlier build, gives the same root
\* hash.
MerkleDeterminism ==
    [][ObjectMap(merkle'.hashes) = ObjectMap(merkle.hashes)
          => merkle'.tree.hash = merkle.tree.hash]_vars

\* C13 happens: the tree of a map of three or more entries that were not
\* inserted in ascending order has been built and is in the cache
UnsortedMapBuilt ==
    /\ Len(merkle.hashes) >= 3
    /\ ObjectKeys(merkle.hashes) # ArraySort(ObjectKeys(merkle.hashes))
    /\ merkle.cache # << >>
    /\ merkle.cache[1].hashes = merkle.hashes
    /\ merkle.cache[1].root = merkle.tree

\* the leaves of a tree, from left to right
RECURSIVE Leaves(_)
Leaves(node) ==
    IF node.kids = << >> THEN <<node>>
    ELSE Leaves(LeftOf(node)) \o Leaves(RightOf(node))

\* the greatest power of two below n, from p upwards
RECURSIVE PowerBelow(_, _)
PowerBelow(n, p) == IF 2 * p < n THEN PowerBelow(n, 2 * p) ELSE p

\* node is a leaf of H, or an internal node that hashes its two canonical
\* children; pairing from the left and promoting the unpaired last node puts
\* the greatest power of two below the number of leaves into the left child
RECURSIVE Canonical(_, _)
Canonical(node, H) ==
    IF node.kids = << >>
    THEN /\ node.isLeaf
         /\ Len(node.uuids) = 1
         /\ node.uuids[1] \in DOMAIN H
         /\ node.hash = H[node.uuids[1]]
    ELSE /\ ~node.isLeaf
         /\ Len(node.kids) = 2
         /\ node.hash = sha256(LeftOf(node).hash \o RightOf(node).hash)
         /\ node.uuids = SortedSeq(Range(LeftOf(node).uuids) \cup Range(RightOf(node).uuids))
         /\ Len(Leaves(LeftOf(node))) = PowerBelow(Len(Leaves(node)), 1)
         /\ Canonical(LeftOf(node), H)
         /\ Canonical(RightOf(node), H)

\* C14: the tree of a non-empty hash map has the sorted uuids as its leaves,
\* each with its hash; every internal node hashes its two children and holds
\* their uuids sorted; an unpaired last node goes up unchanged; the root holds
\* every uuid.
CanonicalConstruction ==
    merkle.hashes # << >> =>
        LET H == ObjectMap(merkle.hashes)
            leaves == Leaves(merkle.tree)
        IN  /\ Canonical(merkle.tree, H)
            /\ [i \in 1..Len(leaves) |-> leaves[i].uuids[1]] = SortedSeq(DOMAIN H)
            /\ merkle.tree.uuids = SortedSeq(DOMAIN H)

\* C14 happens: a tree of five or more leaves whose last leaf has gone up
\* unpaired to the root's right child has been fetched
PromotedLeafBuilt ==
    /\ Len(merkle.hashes) >= 5
    /\ merkle.cache # << >>
    /\ merkle.cache[1].root = merkle.tree
    /\ HasRight(merkle.tree)
    /\ RightOf(merkle.tree).isLeaf

\* C15: a change of one entry of the hash map (its hash, its uuid, an entry
\* added or removed) changes the root hash.
MerkleSensitivity ==
    [][ObjectMap(merkle'.hashes) # ObjectMap(merkle.hashes)
          => merkle'.tree.hash # merkle.tree.hash]_vars

\* C16: the hash of every exposed summary is the root hash of the tree built
\* from the hash map restricted to the uuids of the summary.
SubtreeSoundness ==
    \A i \in 1..Len(merkle.exposed) :
        LET summary == merkle.exposed[i]
        IN  summary.hash =
                buildMerkleTreeNodes(
                    Restrict(ObjectMap(merkle.hashes), Range(summary.uuids))).hash

\* C16 happens: a subtree of three leaves, the last of them promoted, has
\* been exposed below the root
PromotedSubtreeExposed ==
    \E i \in 1..Len(merkle.exposed) :
        /\ Len(merkle.exposed[i].uuids) = 3
        /\ merkle.exposed[i].path # RootPath
        /\ merkle.exposed[i].hasChildren

\* onPeerLeave has run at node n and the peer has not joined again
PeerGone(n) == link = "down" /\ callback[n] = "none"

\* a timer of node n fires
TimerFires(n) ==
    FlushTimer(n) \/ SyncTimeout(n) \/ MerkleUpdateTimer(n) \/ CompletionCheckTimer(n)

\* a handler of node n resumes and hands a message to the transport
SendsToPeer(n) ==
    \/ \E t \in Suspended(n, "startSync") :
          tasks' = Resume(n, t) /\ startSync(t.localHashes, t.remoteRootHash) # << >>
    \/ \E t \in Suspended(n, "hashRequest") : tasks' = Resume(n, t)
    \/ \E t \in Suspended(n, "subtreeHashes") :
          /\ tasks' = Resume(n, t)
          /\ handleSubtreeHashes(peers[n][Peer(n)], t.subtreeHashes, t.localHashes).out # << >>
    \/ \E t \in Suspended(n, "recordRequest") :
          tasks' = Resume(n, t) /\ DOMAIN recordsToSend(db[n], t.requestRecords) # {}

\* C17: once the peer has left, no timer of that peer fires and no message is
\* sent to it.
QuietAfterLeave ==
    [][\A n \in Nodes : PeerGone(n) => ~TimerFires(n) /\ ~SendsToPeer(n)]_vars

\* C18: when the sync timeout of a peer fires, the sync state of the peer is
\* cleared, its batch is discarded, its debounce and completion-check timers
\* are cancelled and its batch timings are dropped; its traffic counters stay.
TimeoutExpiry ==
    [][\A n \in Nodes :
          SyncTimeout(n) =>
              LET s == peers'[n][Peer(n)]
              IN  /\ ~s.syncInProgress
                  /\ ~s.processingRecords
                  /\ s.pendingRequests = << >>
                  /\ ~TimerArmed(s.pendingMerkleUpdates, s.lostMerkleUpdates)
                  /\ ~TimerArmed(s.syncCompletionChecks, s.lostCompletionChecks)
                  /\ s.peerBatchTimings = 0
                  /\ s.peerTraffic = peers[n][Peer(n)].peerTraffic
                  /\ stats' = stats]_vars

\* a RECORDS batch of the peer is being ingested: its handler is suspended
Ingesting(n) == Suspended(n, "saveRecords") # {}

\* C19: while a batch of records from the peer is being ingested, the
\* processingRecords flag of the peer is set and no ROOT_HASH of the peer
\* starts a sync.
SerialIngestion ==
    [][\A n \in Nodes :
          Ingesting(n) =>
              /\ peers[n][Peer(n)].processingRecords
              /\ RecvRootHash(n) => Suspended(n, "startSync")' = Suspended(n, "startSync")
                                    /\ BagCardinality(tasks'[n]) = BagCardinality(tasks[n])]_vars

\* C20: when the save of a batch of records fails, no record of the batch
\* enters the hash index, and the sync state of the peer is cleared: the sync
\* is no longer in progress and the timers of the peer are cancelled.
PersistenceFailure ==
    [][\A n \in Nodes :
          FailSave(n) =>
              LET s == peers'[n][Peer(n)]
              IN  /\ hashMapStore' = hashMapStore
                  /\ ~s.syncInProgress
                  /\ s.syncTimeouts = "none"
                  /\ s.pendingMerkleUpdates = "none"
                  /\ s.syncCompletionChecks = "none"]_vars

\* C21: when a batch holds one malformed record, the other records of the
\* batch that pass moderation go on to be saved and indexed.
MalformedDroppedAlone ==
    [][\A n \in Nodes, bad \in 1..MaxUuidSmall :
          \A good \in (SUBSET (1..MaxUuidSmall \ {bad})) \ {{}} :
              RecvMalformed(n, good, bad) =>
                  \E t \in Suspended(n, "saveRecords")' :
                      /\ DOMAIN t.approvedRecords = good \ moderation[n]
                      /\ CopiesIn(t, tasks'[n]) > CopiesIn(t, tasks[n])]_vars

\* C22: whatever runs for one peer leaves the flags, timers, batch timings,
\* pending batch and traffic counters of every other peer as they were.
PeerIsolation ==
    [][\A n \in Nodes : peers'[n][Bystander] = peers[n][Bystander]]_vars

\* the peer left in the middle of its sync while the bystander was syncing
PeerCleanedNextToBystander ==
    \E n \in Nodes :
        /\ peers[n][Bystander] = BystanderSyncing
        /\ ~HasTraffic(peers[n][Peer(n)])
        /\ stats[n].statSubtreesExchanged > 0
        /\ failures > 0

\* C23: a reset of the statistics zeroes the global counters and the traffic
\* counters of every known peer and changes nothing else: the known peers,
\* the flags, the timers, the pending batches, the hash index and the
\* published root stay as they were.
ResetStatsFrame ==
    [][\A n \in Nodes :
          ResetStats(n) =>
              /\ stats'[n] = ZeroStats
              /\ stats'[Peer(n)] = stats[Peer(n)]
              /\ peers'[Peer(n)] = peers[Peer(n)]
              /\ DOMAIN peers'[n] = DOMAIN peers[n]
              /\ \A p \in DOMAIN peers[n] :
                     /\ HasTraffic(peers'[n][p]) = HasTraffic(peers[n][p])
                     /\ HasTraffic(peers[n][p]) => peers'[n][p].peerTraffic[1] = ZeroTraffic
                     /\ [peers'[n][p] EXCEPT !.peerTraffic = << >>]
                            = [peers[n][p] EXCEPT !.peerTraffic = << >>]
              /\ <<db, hashMapStore, merkleRoot, localMerkleRoot, tasks, net, link, callback>>'
                     = <<db, hashMapStore, merkleRoot, localMerkleRoot, tasks, net, link, callback>>]_vars

\* the statistics were reset in the middle of a sync
ResetDuringSync ==
    \E n \in Nodes :
        /\ stats[n] = ZeroStats
        /\ peers[n][Peer(n)].syncInProgress
        /\ peers[n][Peer(n)].syncTimeouts = "armed"
        /\ peers[n][Peer(n)].peerTraffic = <<ZeroTraffic>>
        /\ peers[n][Bystander].peerTraffic = <<ZeroTraffic>>

\* the peer has a request batch pending or its debounce timer is armed
Unsettled(s) ==
    \/ s.pendingRequests # << >> /\ s.pendingRequests[1].records # {}
    \/ TimerArmed(s.pendingMerkleUpdates, s.lostMerkleUpdates)

\* C24: a completion check that finds a request batch pending or the debounce
\* timer armed sends no ROOT_HASH, keeps the sync state and the pending batch
\* of the peer, and leaves a completion check armed.
CompletionCheckWaits ==
    [][\A n \in Nodes :
          CompletionCheckTimer(n) /\ Unsettled(peers[n][Peer(n)]) =>
              /\ net' = net
              /\ peers'[n][Peer(n)].syncInProgress = peers[n][Peer(n)].syncInProgress
              /\ peers'[n][Peer(n)].syncTimeouts = peers[n][Peer(n)].syncTimeouts
              /\ peers'[n][Peer(n)].pendingMerkleUpdates = peers[n][Peer(n)].pendingMerkleUpdates
              /\ peers'[n][Peer(n)].pendingRequests = peers[n][Peer(n)].pendingRequests
              /\ TimerArmed(peers'[n][Peer(n)].syncCompletionChecks,
                            peers'[n][Peer(n)].lostCompletionChecks)]_vars

\* the root of the tree over the hash index as it is now
FreshRoot(n) == buildMerkleTreeNodes(hashMapStore[n]).hash

\* node n sent a ROOT_HASH with its fresh root that is still in flight
FreshRootInFlight(n) ==
    \E i \in DOMAIN net[n] :
        net[n][i].kind = "rootHash" /\ net[n][i].merkleRoot = FreshRoot(n)

\* an ingestion of node n is about to change its hash index
IngestionChangesRoot(n) ==
    \E t \in Suspended(n, "saveRecords") :
        /\ t.committed
        /\ Merge(hashMapStore[n], approvedHashes(t.approvedRecords)) # hashMapStore[n]

\* C25: whenever an ingestion changes the root of a node, the node later
\* sends a ROOT_HASH that carries its fresh root.
ReverseSync ==
    \A n \in Nodes : IngestionChangesRoot(n) ~> FreshRootInFlight(n)

\* the signature of the token is the one its public key makes over its public
\* key and timestamp
SignedByItsKey(token) ==
    \E priv \in PrivateKeys :
        /\ hexToBytes(token.publicKey) = PublicKeyBytes(priv)
        /\ hexToBytes(token.signature) =
               hexToBytes(signSchnorr(sha256Bytes(TokenMessage(token.publicKey,
                                                               token.timestamp)), priv))

\* the token is one that was issued, with one of its fields changed
Tampered(token) ==
    \E priv \in PrivateKeys, t \in Instants :
        LET issued == LoginToken(priv, t)
        IN  \/ token.timestamp # t /\ token = [issued EXCEPT !.timestamp = token.timestamp]
            \/ /\ token.publicKey # issued.publicKey
               /\ token = [issued EXCEPT !.publicKey = token.publicKey]
            \/ /\ hexToBytes(token.signature) # hexToBytes(issued.signature)
               /\ token = [issued EXCEPT !.signature = token.signature]

\* C26: loading restores a session, setting the public key of the token,
\* exactly when a token is stored, it is at most 24 h old and its signature
\* is the one of its key over its public key and timestamp; an expired or
\* tampered token restores nothing and sets no key.
TokenLoading ==
    [][Mount =>
          LET stored == session.token # << >>
              token  == session.token[1]
              fresh  == session.now - token.timestamp <= TOKEN_VALIDITY_MS
          IN  /\ session'.restored <=> (stored /\ fresh /\ SignedByItsKey(token))
              /\ session'.restored => session'.publicKeyHex = <<token.publicKey>>
              /\ ~session'.restored => session'.publicKeyHex = << >>
              /\ session'.privateKeyHex = << >> /\ ~session'.keysLoaded
              /\ stored /\ (~fresh \/ Tampered(token)) => ~session'.restored
              /\ session'.token = session.token]_vars

\* a token was loaded at the last instant of its validity
RestoredAtTheLimit ==
    /\ session.restored
    /\ session.token # << >>
    /\ session.loadedAt - session.token[1].timestamp = TOKEN_VALIDITY_MS
    /\ session.publicKeyHex = <<session.token[1].publicKey>>

\* C27: whenever the hash index of a node is empty, the root it holds in
\* merkleRoot, which it compares an incoming ROOT_HASH against and publishes
\* for the reverse sync, is SHA-256 of the empty string, also after the
\* database was reset.
EmptyIndexRoot ==
    \A n \in Nodes :
        DOMAIN hashMapStore[n] = {} => merkleRoot[n] = sha256(EmptyString)

\* the per-peer state that cleanupPeerSync clears: flags, timers, batches
ClearedByCleanup(s) ==
    <<s.syncInProgress, s.processingRecords, s.syncTimeouts, s.syncCompletionChecks,
      s.pendingMerkleUpdates, s.peerBatchTimings, s.pendingRequests,
      s.lostSyncTimeouts, s.lostCompletionChecks, s.lostMerkleUpdates>>

\* the sync state, the hash index, the store and the roots of node n stay
RequestFrame(n) ==
    /\ ClearedByCleanup(peers'[n][Peer(n)]) = ClearedByCleanup(peers[n][Peer(n)])
    /\ peers'[Peer(n)] = peers[Peer(n)]
    /\ <<db, hashMapStore, merkleRoot, localMerkleRoot>>'
           = <<db, hashMapStore, merkleRoot, localMerkleRoot>>

\* node n takes a request for subtree hashes from the channel
TakesRequest(n) ==
    /\ CanTake(n, "requestSubtreeHashes")
    /\ net'[Peer(n)] = Tail(net[Peer(n)])

\* C28: every request for subtree hashes a node takes is answered with
\* exactly one SUBTREE_HASHES message to the requester, sent when the handler
\* resumes with the tree; the reply is the empty list when the path does not
\* resolve to a node of the tree; taking and answering the request change
\* no sync state, hash index or store.
RequestAnswered ==
    [][\A n \in Nodes :
          /\ TakesRequest(n) =>
                 /\ \E t \in Suspended(n, "hashRequest")' :
                        /\ tasks'[n] = tasks[n] (+) SetToBag({t})
                        /\ t.request = Head(net[Peer(n)])
                 /\ net'[n] = net[n]
                 /\ RequestFrame(n)
          /\ \A t \in Suspended(n, "hashRequest") :
                 tasks'[n] = tasks[n] (-) SetToBag({t}) =>
                     /\ Len(SentNow(n)) = 1
                     /\ SentNow(n)[1].kind = "subtreeHashes"
                     /\ ~IsNode(getSubtreeAtPath(buildMerkleTreeNodes(t.localHashes),
                                                 t.request.path))
                            => SentNow(n)[1].subtreeHashes = << >>
                     /\ RequestFrame(n)]_vars

\* a request for a path that does not resolve was answered with the empty list
AnsweredWithNothing ==
    \E n \in Nodes :
        /\ net[n] # << >>
        /\ net[n][Len(net[n])] = SubtreeHashesMsg(<< >>)
        /\ peers[n][Peer(n)].syncInProgress

\* C29: in every interleaving of getMerkleTree calls with any hash maps, the
\* tree a call returns has the root hash of a fresh buildMerkleTreeNodes of
\* the argument of that call, and the tree the cache holds is the tree of
\* the hash map the cache holds it under.
CacheTransparency ==
    /\ merkle.tree.hash = buildMerkleTreeNodesOf(merkle.hashes).hash
    /\ merkle.cache # << >> =>
           merkle.cache[1].root = buildMerkleTreeNodesOf(merkle.cache[1].hashes)

\* a call was served from the cache while a call with other hashes under the
\* same uuids was suspended at its build
ServedWhileBuilding ==
    /\ merkle.hit
    /\ Len(merkle.hashes) >= 2
    /\ \E call \in merkle.pending :
           /\ ObjectKeys(call.hashes) = ObjectKeys(merkle.hashes)
           /\ call.hashes # merkle.hashes

\* C30: for each peer and each kind of timer at most one timer is armed, and
\* an armed timer is the one whose handle the state of the peer records: no
\* armed timer has lost its handle, also after a completion check has
\* rescheduled itself and after a debounce was requested again while one was
\* pending.
SingleOwningHandle ==
    \A n \in Nodes :
        \A p \in DOMAIN peers[n] :
            /\ peers[n][p].lostSyncTimeouts = 0
            /\ peers[n][p].lostCompletionChecks = 0
            /\ peers[n][p].lostMerkleUpdates = 0

\* the batch-flush timer of a peer is armed
FlushArmed(s) == s.pendingRequests # << >> /\ s.pendingRequests[1].timeout = "armed"

\* C31: for every peer, in every reachable state, the batch-flush timer is
\* armed if and only if the pending record-request set of that peer is
\* non-empty and has fewer than MAX_BATCH_SIZE uuids.
FlushTimerCoherent ==
    \A n \in Nodes :
        \A p \in DOMAIN peers[n] :
            FlushArmed(peers[n][p])
                <=> /\ getPendingRecordCount(peers[n][p]) > 0
                    /\ getPendingRecordCount(peers[n][p]) < MAX_BATCH_SIZE

\* a batch that reached MAX_BATCH_SIZE was sent at once: the set is empty
\* again and no timer is armed
FlushedAtThreshold ==
    \E n \in Nodes :
        /\ \E m \in Range(net[n]) :
               m.kind = "requestRecords" /\ Cardinality(m.requestRecords) >= MAX_BATCH_SIZE
        /\ peers[n][Peer(n)].pendingRequests = <<[records |-> {}, timeout |-> "none"]>>

\* C32: whenever no handler of a node is suspended at an await, syncInProgress
\* of the peer is true if and only if a sync timeout is armed for that peer:
\* the flag is cleared with the handle, and no timeout is armed for a peer
\* whose flag is clear.
FlagHandleCoherent ==
    \A n \in Nodes :
        tasks[n] = EmptyBag =>
            \A p \in DOMAIN peers[n] :
                peers[n][p].syncInProgress
                    <=> TimerArmed(peers[n][p].syncTimeouts, peers[n][p].lostSyncTimeouts)

\* C33: every sync ends: from a state in which syncInProgress of the peer is
\* set, with messages delivered, handlers resumed and timers fired, a state
\* in which it is clear is reached, also when the sync brings no records.
SyncEnds ==
    \A n \in Nodes :
        peers[n][Peer(n)].syncInProgress ~> ~peers[n][Peer(n)].syncInProgress

\* a node whose peer holds only records it has itself took the root of the
\* peer, which differs, and its sync has ended without any record received
SyncWithoutRecordsEnded ==
    \E n \in Nodes :
        LET s == peers[n][Peer(n)]
        IN  /\ DOMAIN hashMapStore[Peer(n)] \subseteq DOMAIN hashMapStore[n]
            /\ DOMAIN hashMapStore[Peer(n)] # DOMAIN hashMapStore[n]
            /\ HasTraffic(s)
            /\ s.peerTraffic[1].recv.rootHashes >= 1
            /\ stats[n].statReceivedRecords = 0
            /\ tasks[n] = EmptyBag
            /\ ~s.syncInProgress
            /\ s.syncTimeouts = "none"
            /\ s.lostSyncTimeouts = 0

\* twice the mean interval between the first and the last sample kept
TwiceMeanInterval(timings) ==
    [num |-> 2 * (timings[Len(timings)] - timings[1]), den |-> Len(timings) - 1]

\* C34: the delay of the root recompute is MIN_MERKLE_DELAY when the peer has
\* fewer than two samples; otherwise it is twice the mean interval of the
\* samples kept, at most BATCH_TIMING_HISTORY of them, raised to
\* MIN_MERKLE_DELAY and capped at MAX_MERKLE_DELAY; it is always within
\* these two.
AdaptiveDelay ==
    /\ Len(timing.timings) <= BATCH_TIMING_HISTORY
    /\ ~Less(timing.delay, Whole(MIN_MERKLE_DELAY))
    /\ ~Less(Whole(MAX_MERKLE_DELAY), timing.delay)
    /\ Len(timing.timings) < 2 => Same(timing.delay, Whole(MIN_MERKLE_DELAY))
    /\ Len(timing.timings) >= 2 =>
           LET twice == TwiceMeanInterval(timing.timings)
           IN  Same(timing.delay,
                    IF Less(twice, Whole(MIN_MERKLE_DELAY)) THEN Whole(MIN_MERKLE_DELAY)
                    ELSE IF Less(Whole(MAX_MERKLE_DELAY), twice) THEN Whole(MAX_MERKLE_DELAY)
                    ELSE twice)

\* five samples are kept of more batches, and the delay lies strictly
\* between the two limits
DelayBetweenLimits ==
    /\ timing.batches > BATCH_TIMING_HISTORY
    /\ Len(timing.timings) = BATCH_TIMING_HISTORY
    /\ Less(Whole(MIN_MERKLE_DELAY), timing.delay)
    /\ Less(timing.delay, Whole(MAX_MERKLE_DELAY))
    /\ timing.delay.den > 1

\* the store and the index of node n hold the records of the batch already
AlreadyIngested(n, records) ==
    \A uuid \in DOMAIN records :
        /\ uuid \in DOMAIN db[n]
        /\ db[n][uuid] = [records[uuid] EXCEPT !.uuid = uuid]
        /\ uuid \in DOMAIN hashMapStore[n]
        /\ hashMapStore[n][uuid] = records[uuid].hash

\* C35: a delivery of a message that was handled before changes nothing: the
\* ingestion of a batch leaves the store and the index holding its records,
\* the ingestion of a batch whose records they hold already leaves both as
\* they are, and handling SUBTREE_HASHES changes neither.
DuplicateIsIdempotent ==
    [][\A n \in Nodes :
          /\ \A t \in Suspended(n, "saveRecords") :
                 /\ tasks'[n] = tasks[n] (-) SetToBag({t})
                        => AlreadyIngested(n, t.approvedRecords)'
                 /\ /\ AlreadyIngested(n, t.approvedRecords)
                    /\ \/ tasks'[n] = tasks[n] (-) SetToBag({t})
                       \/ tasks'[n] = (tasks[n] (-) SetToBag({t}))
                                          (+) SetToBag({[t EXCEPT !.committed = TRUE]})
                    => db'[n] = db[n] /\ hashMapStore'[n] = hashMapStore[n]
          /\ \/ CanTake(n, "subtreeHashes") /\ net'[Peer(n)] = Tail(net[Peer(n)])
             \/ \E t \in Suspended(n, "subtreeHashes") :
                    tasks'[n] = tasks[n] (-) SetToBag({t})
             => db' = db /\ hashMapStore' = hashMapStore]_vars

\* a batch is ingested a second time: a copy of it was delivered, the store
\* and the index held its records before the second save was committed
IngestedTwice ==
    \E n \in Nodes :
        \E t \in Suspended(n, "saveRecords") :
            /\ failures > 0
            /\ t.committed
            /\ DOMAIN t.approvedRecords # {}
            /\ AlreadyIngested(n, t.approvedRecords)
            /\ stats[n].statReceivedRecords >= 2 * Cardinality(DOMAIN t.records)
            /\ net[Peer(n)] = << >>

\* the number of steps from the root a path takes
PathLength(path) == Len(PathParts(path))

\* C36: the descent goes down.  A reply to a request of depth 1 or more
\* marks as having children only nodes of the replying tree strictly below
\* the path of the request, and a request sent in reaction to a reply has
\* depth 1 and the path of an item of that reply marked as having children;
\* so each request of the descent is strictly longer than the one that
\* produced its item, and no longer than the remote tree is high.
ProgressiveDescent ==
    [][\A n \in Nodes :
          /\ \A t \in Suspended(n, "hashRequest") :
                 tasks'[n] = tasks[n] (-) SetToBag({t}) /\ t.request.depth >= 1
                    => \A m \in SentKind(n, "subtreeHashes") :
                          \A item \in Range(m.subtreeHashes) :
                              item.hasChildren
                                 => /\ PathLength(item.path) > PathLength(t.request.path)
                                    /\ IsNode(getSubtreeAtPath(getMerkleTree(t.localHashes),
                                                               item.path))
          /\ \A t \in Suspended(n, "subtreeHashes") :
                 tasks'[n] = tasks[n] (-) SetToBag({t})
                    => \A m \in SentKind(n, "requestSubtreeHashes") :
                          /\ m.depth >= 1
                          /\ \E item \in Range(t.subtreeHashes) :
                                 item.hasChildren /\ m.path = item.path]_vars

\* the descent reached the second level: a reply to a request sent in
\* reaction to a reply is in flight
SecondLevelExposed ==
    \E n \in Nodes :
        \E i \in 1..Len(net[n]) :
            /\ net[n][i].kind = "subtreeHashes"
            /\ \E item \in Range(net[n][i].subtreeHashes) : PathLength(item.path) >= 2

\* the summaries cover the uuids of the node once each, and the path of each
\* resolves in the tree to a node with its hash
CoversOnce(summaries, node, tree) ==
    /\ \A i, j \in 1..Len(summaries) :
           i # j => Range(summaries[i].uuids) \cap Range(summaries[j].uuids) = {}
    /\ UNION {Range(summaries[i].uuids) : i \in 1..Len(summaries)} = Range(node.uuids)
    /\ \A i \in 1..Len(summaries) :
           LET found == getSubtreeAtPath(tree, summaries[i].path)
           IN  IsNode(found) /\ found.hash = summaries[i].hash

\* C37: for every node of the built tree and every depth, the summaries of
\* extractSubtreeHashes(node, path, depth) have pairwise disjoint uuids
\* whose union is the uuids of the node, and the path of each summary
\* resolves to a node that has the hash of the summary.
ExposureCoversOnce ==
    \A path \in PathsUpTo(MaxPath), depth \in 0..MaxDepth :
        LET node == getSubtreeAtPath(merkle.tree, path)
        IN  IsNode(node)
               => CoversOnce(extractSubtreeHashes(node, path, depth), node, merkle.tree)

\* the exposure of a tree stopped at nodes of different levels: a promoted
\* leaf above the requested depth next to summaries at that depth
UnevenExposure ==
    /\ Len(merkle.exposed) >= 3
    /\ \E i, j \in 1..Len(merkle.exposed) :
           /\ PathLength(merkle.exposed[i].path) = 2
           /\ PathLength(merkle.exposed[j].path) = 1
           /\ ~merkle.exposed[j].hasChildren
    /\ CoversOnce(merkle.exposed, merkle.tree, merkle.tree)

\* C38: completion checks come to an end: from some point on no completion
\* check of the peer is armed, so that only finitely many of them fire.
CompletionChecksEnd ==
    \A n \in Nodes :
        <>[](~TimerArmed(peers[n][Peer(n)].syncCompletionChecks,
                         peers[n][Peer(n)].lostCompletionChecks))

\* node n takes a subtree request, SUBTREE_HASHES, REQUEST_RECORDS or RECORDS
\* message of its peer after the peer has left
TakesLate(n) ==
    /\ link = "late"
    /\ net[Peer(n)] # << >>
    /\ Head(net[Peer(n)]).kind # "rootHash"
    /\ net'[Peer(n)] = Tail(net[Peer(n)])

\* C39: no per-peer state outside join and leave: a message of a peer that
\* has left and not joined again creates no state of that peer (counters,
\* flags, timers, batches, timing history) at its arrival.
NothingFromLateMessages ==
    [][\A n \in Nodes : TakesLate(n) => peers'[n] = peers[n]]_vars

\* C40: the reply to REQUEST_RECORDS holds exactly the requested uuids that
\* the record store holds, each with its stored record; when the store holds
\* none of them no RECORDS message is sent; and the records-sent counters
\* of the node and of the peer grow by the number of records of the reply.
RecordsReply ==
    [][\A n \in Nodes :
          \A t \in Suspended(n, "recordRequest") :
              tasks'[n] = tasks[n] (-) SetToBag({t})
                 => LET existing == {uuid \in t.requestRecords : uuid \in DOMAIN db[n]}
                        count    == Cardinality(existing)
                        s        == peers[n][Peer(n)]
                    IN  /\ existing = {} => net'[n] = net[n]
                        /\ existing # {} /\ link = "up"
                              => /\ Len(SentNow(n)) = 1
                                 /\ SentNow(n)[1].kind = "records"
                                 /\ DOMAIN SentNow(n)[1].records = existing
                                 /\ \A uuid \in existing :
                                        SentNow(n)[1].records[uuid] = db[n][uuid]
                        /\ stats'[n].statRecordsSent
                              = Bump(stats[n].statRecordsSent, count)
                        /\ HasTraffic(s)
                              => peers'[n][Peer(n)].peerTraffic[1].sent.records
                                    = Bump(s.peerTraffic[1].sent.records, count)]_vars

\* a request is being answered that names a record the store holds and a
\* record it holds no longer
PartlyStoredRequested ==
    \E n \in Nodes :
        \E t \in Suspended(n, "recordRequest") :
            /\ t.requestRecords \cap DOMAIN db[n] # {}
            /\ t.requestRecords \ DOMAIN db[n] # {}
            /\ link = "up"

====
